---- MODULE Spec2Model ----
(***************************************************************************)
(* Terramate code generation (package generate), the loading of            *)
(* generate_file blocks over a stack's ancestor chain, and the validation  *)
(* of the generated file set.                                              *)
(*                                                                         *)
(* Strings are modelled as sequences: a path or a file name is a sequence  *)
(* of characters, a file content is a sequence of lines.  The filesystem   *)
(* of a stack directory is a function from the names of the files that     *)
(* exist to their content.  Operating system failures (ReadDir, ReadFile,  *)
(* Remove and WriteFile returning an error other than "not exist") are not *)
(* modelled.                                                               *)
(***************************************************************************)
EXTENDS Integers, Sequences, FiniteSets, TLC

VARIABLES
    cfg,      \* per stack: the generate blocks that apply to it, globals outcome
    dirs,     \* per stack: the files of the stack directory
    report,   \* the Report returned by the last generate.Do
    ran,      \* TRUE when report is the result of a Do that no edit followed
    prev,     \* dirs as they were when the last Do started
    rerun,    \* per stack: the last Do repeated a successful Do on unchanged inputs
    wdir,     \* the working dir given to the last Do
    chk,      \* the result of a CheckStack that followed the last Do
    vgen,     \* validateGeneratedFiles: the list under validation
    vres,     \* validateGeneratedFiles: its result ("pending" before the call)
    chain,    \* block loading: generate_file labels per directory of the chain
    loaded,   \* block loading: result of the two loaders
    gdefs,    \* globals: per directory, the attributes of its globals blocks
    gres,     \* globals: the result of LoadStackGlobals
    pexpr,    \* partial evaluation: the expression, an atom and its contexts
    pres,     \* partial evaluation: the result of PartialEval
    pfs,      \* parser: per configuration file, what it holds and its imports
    parser,   \* parser: the TerramateParser, once constructed
    pcall,    \* parser: the last call of Parse or MinimalParse and its result
    ostacks,  \* run order: per stack, its After list
    ores      \* run order: the stacks given to the last RunOrder and its result

vars == <<cfg, dirs, report, ran, prev, rerun, wdir, chk, vgen, vres, chain, loaded,
          gdefs, gres, pexpr, pres>>

genVars == <<cfg, dirs, report, ran, prev, rerun, wdir, chk>>
valVars == <<vgen, vres>>
loadVars == <<chain, loaded>>
globVars == <<gdefs, gres>>
peVars == <<pexpr, pres>>
parseVars == <<pfs, parser, pcall>>
orderVars == <<ostacks, ores>>

----------------------------------------------------------------------------
(* Strings *)

\* Byte order of the characters used in names and paths.
CharOrd(c) ==
    CASE c = "/" -> 47
      [] c = "2" -> 50
      [] c = "a" -> 97
      [] c = "b" -> 98
      [] c = "c" -> 99
      [] c = "d" -> 100
      [] c = "r" -> 114
      [] c = "s" -> 115
      [] c = "t" -> 116

\* Go's s < t on strings: bytewise lexicographic order.
RECURSIVE StrLess(_, _)
StrLess(s, t) ==
    IF t = <<>> THEN FALSE
    ELSE IF s = <<>> THEN TRUE
    ELSE IF s[1] # t[1] THEN CharOrd(s[1]) < CharOrd(t[1])
    ELSE StrLess(Tail(s), Tail(t))

\* strings.HasPrefix(s, prefix)
HasPrefix(s, prefix) ==
    /\ Len(prefix) <= Len(s)
    /\ SubSeq(s, 1, Len(prefix)) = prefix

\* sort.Strings on a set of names
RECURSIVE sortStrings(_)
sortStrings(S) ==
    IF S = {} THEN <<>>
    ELSE LET least == CHOOSE x \in S : \A y \in S \ {x} : StrLess(x, y)
         IN  <<least>> \o sortStrings(S \ {least})

\* strings.Contains(s, "/")
ContainsSlash(s) == \E i \in 1..Len(s) : s[i] = "/"

----------------------------------------------------------------------------
(* Headers and generated files *)

Header == "// TERRAMATE: GENERATED AUTOMATICALLY DO NOT EDIT"
HeaderV0 == "// GENERATED BY TERRAMATE: DO NOT EDIT"

\* The second line of a generate_hcl file names the configuration the block
\* was defined in.
OriginLine(origin) ==
    CASE origin = "/r/terramate.tm.hcl" ->
        "// TERRAMATE: originated from generate_hcl block on /r/terramate.tm.hcl"

\* hasGenHCLHeader: the code starts with the current or with the first header.
hasGenHCLHeader(code) ==
    \E header \in {Header, HeaderV0} : Len(code) > 0 /\ code[1] = header

\* Variant: the first header is written instead of the current one.
prependFirstHeader(origin) == <<HeaderV0, OriginLine(origin), "">>

\* Header of a generate_hcl file: the header line, the line of the origin and
\* an empty line.
prependGenHCLHeader(origin) == <<Header, OriginLine(origin), "">>

\* Header(): generate_hcl files get the header lines, generate_file files get
\* none.

fileHeader(g) ==
    IF g.kind = "hcl" THEN prependGenHCLHeader(g.origin) ELSE <<>>

fileCode(g) == fileHeader(g) \o g.body

----------------------------------------------------------------------------
(* Small helpers on functions used as Go maps *)

MapPut(m, k, v) == [x \in DOMAIN m \cup {k} |-> IF x = k THEN v ELSE m[x]]
MapDel(m, S) == [x \in DOMAIN m \ S |-> m[x]]
EmptyMap == [x \in {} |-> 0]

RECURSIVE Perms(_)
Perms(S) ==
    IF S = {} THEN {<<>>}
    ELSE UNION {{<<x>> \o p : p \in Perms(S \ {x})} : x \in S}

\* sort.Slice(s, less by Name).  Go sorts a slice of fewer than 12 elements by
\* insertion: an element moves down while its name is less than the name
\* before it, so elements of equal name keep their order.
RECURSIVE insertByName(_, _)
insertByName(sorted, x) ==
    IF sorted = <<>> THEN <<x>>
    ELSE LET last == sorted[Len(sorted)]
         IN  IF StrLess(x.name, last.name)
             THEN Append(insertByName(SubSeq(sorted, 1, Len(sorted) - 1), x), last)
             ELSE Append(sorted, x)

RECURSIVE sortSliceByName(_)
sortSliceByName(s) ==
    IF s = <<>> THEN <<>>
    ELSE insertByName(sortSliceByName(SubSeq(s, 1, Len(s) - 1)), s[Len(s)])

----------------------------------------------------------------------------
(* The stacks of the project and their inputs *)

Root == <<"/", "r">>

\* terramate.ListStacks(root): host paths of the stacks, in listing order.
StackPaths == << <<"/", "r", "/", "s">>,
                 <<"/", "r", "/", "s", "2">>,
                 <<"/", "r", "/", "t">> >>

StackIds == 1..Len(StackPaths)

WorkingDirs == {Root, <<"/", "r", "/", "s">>, <<"/", "r", "/", "t">>}

Kinds == {"file", "hcl"}
FileNames == {<<"a">>, <<"b">>}

\* The labels that generate_file and generate_hcl blocks are given.
Labels(kind) == IF kind = "file" THEN {<<"a">>} ELSE {<<"a">>, <<"b">>}
Slots == {sl \in Kinds \X FileNames : sl[2] \in Labels(sl[1])}

Origin == "/r/terramate.tm.hcl"

\* Bodies a generate block can evaluate to.  The content of a generate_file
\* block is any string, so it may itself start with the header line.
Bodies(kind) ==
    IF kind = "hcl" THEN {<<>>, <<"x">>, <<"y">>}
    ELSE {<<>>, <<"x">>, <<Header>>}

NoBlock == [present |-> FALSE, cond |-> FALSE, body |-> <<>>]

BlockChoices(kind) ==
    {NoBlock}
    \cup {[present |-> TRUE, cond |-> FALSE, body |-> <<"x">>]}
    \cup {[present |-> TRUE, cond |-> TRUE, body |-> b] : b \in Bodies(kind)}

\* What a user may put under a name of a stack directory: a file written by
\* hand, or a file generated by a release that wrote the first header.
UserContents == {<<"u">>, <<HeaderV0, "x">>}

Fails == {"none", "globals", "genfile", "genhcl"}
LoadFails == {"none", "genhcl"}

EmptyCfg == [fail |-> "none", blocks |-> [sl \in Slots |-> NoBlock]]

\* genfile.Load / genhcl.Load: the evaluated blocks of one kind for a stack.
\* Labels of one kind are unique, the order of the result is by name.
loadKind(c, kind) ==
    LET names == {n \in Labels(kind) : c.blocks[<<kind, n>>].present}
        gen(n) == [kind |-> kind, name |-> n,
                   cond |-> c.blocks[<<kind, n>>].cond,
                   body |-> c.blocks[<<kind, n>>].body,
                   origin |-> Origin]
        byName == CHOOSE q \in Perms(names) :
                      \A i \in 1..Len(q), j \in 1..Len(q) :
                          i < j => StrLess(q[i], q[j])
    IN  [i \in 1..Len(byName) |-> gen(byName[i])]

----------------------------------------------------------------------------
(* generate.Do for one stack *)

stackReport(status, err) ==
    [status |-> status, err |-> err,
     created |-> {}, changed |-> {}, deleted |-> {}]

RECURSIVE validateLoop(_, _, _)
validateLoop(generated, i, condset) ==
    IF i > Len(generated) THEN "none"
    ELSE LET file == generated[i]
         IN  IF file.name \in DOMAIN condset /\ condset[file.name]
             THEN "ConflictingConfig"
             ELSE validateLoop(generated, i + 1,
                               MapPut(condset, file.name, file.cond))

checkGeneratedFilesPaths(generated) ==
    IF \E i \in 1..Len(generated) : ContainsSlash(generated[i].name)
    THEN "InvalidFilePath"
    ELSE "none"

validateGeneratedFiles(generated) ==
    LET conflict == validateLoop(generated, 1, EmptyMap)
    IN  IF conflict # "none" THEN conflict
        ELSE checkGeneratedFilesPaths(generated)

\* ListStackGenFiles: the files of the directory that carry a header.
ListStackGenFiles(dir) == {n \in DOMAIN dir : hasGenHCLHeader(dir[n])}

\* Variant: only the files that carry a header are removed and remembered.
removeHeaderFilesOnly(dir, genfiles) ==
    LET existing == {n \in DOMAIN dir : hasGenHCLHeader(dir[n])}
    IN  [removedFiles |-> [n \in existing |-> dir[n]],
         dir |-> MapDel(dir, existing)]

\* Variant: a generator whose condition is false does not name a file to
\* remove.
removeEnabledOnly(dir, genfiles) ==
    LET files == {n \in DOMAIN dir : hasGenHCLHeader(dir[n])}
                 \cup {genfiles[i].name : i \in
                          {j \in 1..Len(genfiles) :
                              fileHeader(genfiles[j]) = <<>> /\ genfiles[j].cond}}
        existing == files \cap DOMAIN dir
    IN  [removedFiles |-> [n \in existing |-> dir[n]],
         dir |-> MapDel(dir, existing)]

\* removeStackGeneratedFiles: removes the files that carry a header and the
\* files named by a generator without header; remembers what it removed.
removeStackGeneratedFiles(dir, genfiles) ==
    LET files == ListStackGenFiles(dir)
                 \cup {genfiles[i].name : i \in
                          {j \in 1..Len(genfiles) : fileHeader(genfiles[j]) = <<>>}}
        existing == files \cap DOMAIN dir
    IN  [removedFiles |-> [n \in existing |-> dir[n]],
         dir |-> MapDel(dir, existing)]

\* readGeneratedFile through checkFileCanBeOverwritten: the error, if any.
checkFileCanBeOverwritten(dir, name) ==
    IF name \notin DOMAIN dir THEN "none"
    ELSE IF hasGenHCLHeader(dir[name]) THEN "none"
    ELSE "ManualCodeExists"

\* Variant: the file is written without looking at what is there.
writeUnchecked(dir, genfile) ==
    [err |-> "none", dir |-> MapPut(dir, genfile.name, fileCode(genfile))]

writeGeneratedCode(dir, genfile) ==
    LET check == IF fileHeader(genfile) # <<>>
                 THEN checkFileCanBeOverwritten(dir, genfile.name)
                 ELSE "none"
    IN  IF check # "none" THEN [err |-> check, dir |-> dir]
        ELSE [err |-> "none", dir |-> MapPut(dir, genfile.name, fileCode(genfile))]

\* Variant: the removed files are left out of a failed report.
failureReportErrOnly(r, err, removedFiles) == [r EXCEPT !.err = err]

failureReport(r, err, removedFiles) ==
    [r EXCEPT !.err = err, !.deleted = r.deleted \cup DOMAIN removedFiles]

\* Variant: an empty body is saved like any other.
ignoredByCondition(file) == ~file.cond

\* A generator whose file is not saved: condition false, or nothing but a
\* header to write.
ignored(file) == ~file.cond \/ file.body = <<>>

\* Variant: every remembered file that is saved again counts as changed.
detectChangeNoCompare(r, file, removedFiles) ==
    IF file.name \notin DOMAIN removedFiles
    THEN [r EXCEPT !.created = @ \cup {file.name}]
    ELSE [r EXCEPT !.changed = @ \cup {file.name}]

\* Change detection for a file just saved.
detectChange(r, file, removedFiles) ==
    IF file.name \notin DOMAIN removedFiles
    THEN [r EXCEPT !.created = @ \cup {file.name}]
    ELSE IF fileCode(file) # removedFiles[file.name]
    THEN [r EXCEPT !.changed = @ \cup {file.name}]
    ELSE r

\* The saving loop of Do and the report of the files left removed.
RECURSIVE saveLoop(_, _, _, _, _)
saveLoop(generated, i, dir, removedFiles, r) ==
    IF i > Len(generated)
    THEN [rep |-> [r EXCEPT !.deleted = r.deleted \cup DOMAIN removedFiles],
          dir |-> dir]
    ELSE LET file == generated[i]
         IN  IF ignored(file)
             THEN saveLoop(generated, i + 1, dir, removedFiles, r)
             ELSE LET w == writeGeneratedCode(dir, file)
                  IN  IF w.err # "none"
                      THEN [rep |-> failureReport(r, w.err, removedFiles),
                            dir |-> w.dir]
                      ELSE saveLoop(generated, i + 1, w.dir,
                                    MapDel(removedFiles, {file.name}),
                                    detectChange(r, file, removedFiles))

\* The callback of Do once both kinds of blocks are loaded and sorted.
generateStack(generated, dir) ==
    LET err == validateGeneratedFiles(generated)
    IN  IF err # "none"
        THEN [rep |-> stackReport("done", err), dir |-> dir]
        ELSE LET rm == removeStackGeneratedFiles(dir, generated)
             IN  saveLoop(generated, 1, rm.dir, rm.removedFiles,
                          stackReport("done", "none"))

\* The callback of Do.
DoStack(c, dir) ==
    IF c.fail = "genfile"
    THEN [rep |-> stackReport("done", "LoadGenFile"), dir |-> dir]
    ELSE IF c.fail = "genhcl"
    THEN [rep |-> stackReport("done", "LoadGenHCL"), dir |-> dir]
    ELSE generateStack(
             sortSliceByName(loadKind(c, "file") \o loadKind(c, "hcl")), dir)

\* forEachStack from entry i on: the report and the directories at the end.
RECURSIVE forEachStackFrom(_, _, _, _, _)
forEachStackFrom(i, workingDir, cs, rep, ds) ==
    IF i > Len(StackPaths) THEN [report |-> rep, dirs |-> ds]
    ELSE IF ~HasPrefix(StackPaths[i], workingDir)
    THEN forEachStackFrom(i + 1, workingDir, cs, rep, ds)
    ELSE IF cs[i].fail = "globals"
    THEN forEachStackFrom(i + 1, workingDir, cs,
             [rep EXCEPT ![i] = stackReport("failed", "LoadingGlobals")], ds)
    ELSE LET o == DoStack(cs[i], ds[i])
         IN  forEachStackFrom(i + 1, workingDir, cs,
                 [rep EXCEPT ![i] = o.rep], [ds EXCEPT ![i] = o.dir])

NoReport == [s \in StackIds |-> stackReport("skipped", "none")]

\* Variant: the first stack that fails ends the walk.
RECURSIVE untilFailureFrom(_, _, _, _, _)
untilFailureFrom(i, workingDir, cs, rep, ds) ==
    IF i > Len(StackPaths) THEN [report |-> rep, dirs |-> ds]
    ELSE IF ~HasPrefix(StackPaths[i], workingDir)
    THEN untilFailureFrom(i + 1, workingDir, cs, rep, ds)
    ELSE IF cs[i].fail = "globals"
    THEN [report |-> [rep EXCEPT ![i] = stackReport("failed", "LoadingGlobals")],
          dirs |-> ds]
    ELSE LET o == DoStack(cs[i], ds[i])
         IN  IF o.rep.err # "none"
             THEN [report |-> [rep EXCEPT ![i] = o.rep],
                   dirs |-> [ds EXCEPT ![i] = o.dir]]
             ELSE untilFailureFrom(i + 1, workingDir, cs,
                      [rep EXCEPT ![i] = o.rep], [ds EXCEPT ![i] = o.dir])

forEachStackUntilFailure(workingDir, cs, ds) ==
    untilFailureFrom(1, workingDir, cs, NoReport, ds)

forEachStack(workingDir, cs, ds) ==
    forEachStackFrom(1, workingDir, cs, NoReport, ds)

----------------------------------------------------------------------------
(* generate.CheckStack *)

\* updateOutdatedFiles from generator i on: the set of outdated files.
RECURSIVE updateOutdatedFiles(_, _, _, _)
updateOutdatedFiles(dir, generated, i, outdatedFiles) ==
    IF i > Len(generated) THEN outdatedFiles
    ELSE LET genfile == generated[i]
             codeFound == genfile.name \in DOMAIN dir
         IN  IF ~codeFound /\ (genfile.body = <<>> \/ ~genfile.cond)
             THEN updateOutdatedFiles(dir, generated, i + 1, outdatedFiles)
             ELSE IF ~genfile.cond
             THEN updateOutdatedFiles(dir, generated, i + 1,
                                      outdatedFiles \cup {genfile.name})
             ELSE IF ~codeFound \/ fileCode(genfile) # dir[genfile.name]
             THEN updateOutdatedFiles(dir, generated, i + 1,
                                      outdatedFiles \cup {genfile.name})
             ELSE updateOutdatedFiles(dir, generated, i + 1,
                                      outdatedFiles \ {genfile.name})

\* CheckStack once the blocks are loaded: genfiles, then genhcls.
checkGenerated(generated, dir) ==
    IF validateGeneratedFiles(generated) # "none"
    THEN [err |-> validateGeneratedFiles(generated), outdated |-> <<>>]
    ELSE [err |-> "none",
          outdated |-> sortStrings(updateOutdatedFiles(dir, generated, 1,
                                                       ListStackGenFiles(dir)))]

CheckStack(c, dir) ==
    IF c.fail = "globals" THEN [err |-> "LoadingGlobals", outdated |-> <<>>]
    ELSE IF c.fail = "genfile" THEN [err |-> "LoadGenFile", outdated |-> <<>>]
    ELSE IF c.fail = "genhcl" THEN [err |-> "LoadGenHCL", outdated |-> <<>>]
    ELSE checkGenerated(loadKind(c, "file") \o loadKind(c, "hcl"), dir)

----------------------------------------------------------------------------
(* Loading generate_file blocks over the directories from the stack up to *)
(* the root                                                                *)

MaxBlocksPerDir == 2

LoadRoot == <<"/", "r">>
LoadStackDir == <<"/", "r", "/", "s", "/", "t">>

\* filepath.Dir
Dir(path) ==
    LET slashes == {i \in 1..Len(path) : path[i] = "/"}
        last == CHOOSE i \in slashes : \A j \in slashes : j <= i
    IN  IF last = 1 THEN <<"/">> ELSE SubSeq(path, 1, last - 1)

ChainDirs == {LoadRoot, Dir(LoadStackDir), LoadStackDir}
BlockLabels == {"a", "b"}

\* hcl.ParseGenerateFileBlocks(cfgdir): the labels of the generate_file
\* blocks of the directory, in the order they are handed over.
ParseGenerateFileBlocks(ch, cfgdir) ==
    IF cfgdir \in DOMAIN ch THEN ch[cfgdir] ELSE <<>>

\* The blocks of one directory as a map from label to origin.
dirBlocks(ch, cfgdir) ==
    LET blocks == ParseGenerateFileBlocks(ch, cfgdir)
    IN  [l \in {blocks[i] : i \in 1..Len(blocks)} |-> cfgdir]

hasDuplicate(blocks) ==
    \E i \in 1..Len(blocks), j \in 1..Len(blocks) : i < j /\ blocks[i] = blocks[j]

\* join(target, src): src is walked in the order of a Go map, which is any
\* order; the walk ends at the first label target has already.  Every
\* outcome, as [err, target].
join(target, src) ==
    LET clash == DOMAIN src \cap DOMAIN target
        free == DOMAIN src \ clash
        merged(S) == [l \in DOMAIN target \cup S |->
                         IF l \in DOMAIN target THEN target[l] ELSE src[l]]
    IN  IF clash = {}
        THEN {[err |-> "none", target |-> merged(free)]}
        ELSE {[err |-> "found label", target |-> merged(S)] : S \in SUBSET free}

\* genfile.loadGenFileBlocks: every outcome, as [err, blocks].
RECURSIVE genfileLoadGenFileBlocks(_, _, _)
genfileLoadGenFileBlocks(ch, rootdir, cfgdir) ==
    IF ~HasPrefix(cfgdir, rootdir) THEN {[err |-> "none", blocks |-> EmptyMap]}
    ELSE LET res == dirBlocks(ch, cfgdir)
         IN  UNION {
                 IF parentRes.err # "none" THEN {parentRes}
                 ELSE {[err |-> "none", blocks |-> j.target] :
                          j \in join(res, parentRes.blocks)}
                 : parentRes \in genfileLoadGenFileBlocks(ch, rootdir, Dir(cfgdir))}

\* genfilehcl.loadGenFileBlocks
RECURSIVE genfilehclLoadGenFileBlocks(_, _, _)
genfilehclLoadGenFileBlocks(ch, rootdir, cfgdir) ==
    IF ~HasPrefix(cfgdir, rootdir) THEN [err |-> "none", blocks |-> EmptyMap]
    ELSE IF hasDuplicate(ParseGenerateFileBlocks(ch, cfgdir))
    THEN [err |-> "Parsing", blocks |-> EmptyMap]
    ELSE LET res == dirBlocks(ch, cfgdir)
             parentRes == genfilehclLoadGenFileBlocks(ch, rootdir, Dir(cfgdir))
         IN  IF parentRes.err # "none" THEN parentRes
             ELSE LET j == CHOOSE o \in join(res, parentRes.blocks) : TRUE
                  IN  IF j.err # "none"
                      THEN [err |-> "MultiLevelConflict", blocks |-> EmptyMap]
                      ELSE [err |-> "none", blocks |-> j.target]

----------------------------------------------------------------------------
(* validateGeneratedFiles on its own *)

MaxGenerated == 3

ValNames == {<<"a">>, <<"b">>, <<"d", "/", "c">>}

ValGenerators ==
    {[kind |-> k, name |-> n, cond |-> c, body |-> <<"x">>, origin |-> Origin] :
        k \in Kinds, n \in ValNames, c \in BOOLEAN}

----------------------------------------------------------------------------
(* Globals: loading the globals blocks from the stack directory up to the   *)
(* root and evaluating them                                                 *)

MaxDefsPerDir == 3

\* meta.Path of the stack whose globals are loaded, relative to the root.
GlobalsStackPath == <<"/", "s", "/", "t">>

\* parentDir: filepath.Dir and whether it differs from dir.
parentDir(dir) == [parent |-> Dir(dir), ok |-> Dir(dir) # dir]

RECURSIVE dirsUpFrom(_)
dirsUpFrom(dir) ==
    IF parentDir(dir).ok THEN {dir} \cup dirsUpFrom(parentDir(dir).parent)
    ELSE {dir}

GlobalsDirs == dirsUpFrom(GlobalsStackPath)

\* An expression is a sequence of parts.  A part is a literal, a variable
\* (a namespace and an attribute) or a subexpression whose evaluation fails.
Lit(s) == <<[ns |-> "lit", name |-> s]>>
Var(ns, name) == <<[ns |-> ns, name |-> name]>>
Failing == <<[ns |-> "fail", name |-> "f"]>>

\* hclsyntax.Variables(expr): the variables of the expression, in order.
Variables(expr) == SelectSeq(expr, LAMBDA part : part.ns \notin {"lit", "fail"})

\* The namespaces eval registers in the evaluation context.
Namespaces == {"terramate", "global"}

\* evalctx.Eval(expr): a part that fails, a variable of a namespace that is
\* not registered or a global that has no value yet make it fail.
partFails(part, attributes) ==
    \/ part.ns = "fail"
    \/ part.ns \notin Namespaces \cup {"lit"}
    \/ part.ns = "global" /\ part.name \notin DOMAIN attributes

RECURSIVE Eval(_, _)
Eval(expr, attributes) ==
    IF expr = <<>> THEN [err |-> FALSE, val |-> <<>>]
    ELSE LET part == Head(expr)
             rest == Eval(Tail(expr), attributes)
         IN  IF partFails(part, attributes) \/ rest.err
             THEN [err |-> TRUE, val |-> <<>>]
             ELSE [err |-> FALSE,
                   val |-> (CASE part.ns = "lit" -> <<part.name>>
                              [] part.ns = "terramate" -> <<"/s/t">>
                              [] part.ns = "global" -> attributes[part.name])
                           \o rest.val]

\* Variant: the definition of the parent directory wins.
mergeParentFirst(ge, other) ==
    [k \in DOMAIN ge \cup DOMAIN other |->
        IF k \in DOMAIN other THEN other[k] ELSE ge[k]]

\* globalsExpr.merge: the expressions of other are added unless ge has them.
merge(ge, other) ==
    [k \in DOMAIN ge \cup DOMAIN other |->
        IF k \in DOMAIN ge THEN ge[k] ELSE other[k]]

\* A name is given two expressions in the globals blocks of one directory.
redefined(attrs) ==
    \E x \in attrs, y \in attrs : x # y /\ x.name = y.name

\* loadStackGlobalsExprs: [err, expressions], each expression with its origin.
RECURSIVE loadStackGlobalsExprs(_, _)
loadStackGlobalsExprs(defs, cfgdir) ==
    IF redefined(defs[cfgdir])
    THEN [err |-> "GlobalRedefined", expressions |-> EmptyMap]
    ELSE LET globals ==
                 [n \in {x.name : x \in defs[cfgdir]} |->
                     [origin |-> cfgdir,
                      value |-> (CHOOSE x \in defs[cfgdir] : x.name = n).expr]]
             parentcfg == parentDir(cfgdir)
         IN  IF ~parentcfg.ok THEN [err |-> "none", expressions |-> globals]
             ELSE LET parentGlobals == loadStackGlobalsExprs(defs, parentcfg.parent)
                  IN  IF parentGlobals.err # "none" THEN parentGlobals
                      ELSE [err |-> "none",
                            expressions |-> merge(globals, parentGlobals.expressions)]

\* The check of the variables of a pending expression: "GlobalEval" ends the
\* evaluation, "pending" leaves the expression for a later pass.
RECURSIVE checkVars(_, _, _)
checkVars(vs, pendingExprs, attributes) ==
    IF vs = <<>> THEN "ok"
    ELSE LET namespace == Head(vs)
         IN  IF namespace.ns \notin Namespaces THEN "GlobalEval"
             ELSE IF namespace.ns # "global"
             THEN checkVars(Tail(vs), pendingExprs, attributes)
             ELSE IF namespace.name \in DOMAIN pendingExprs THEN "pending"
             ELSE IF namespace.name \notin DOMAIN attributes THEN "GlobalEval"
             ELSE checkVars(Tail(vs), pendingExprs, attributes)

\* Variant: an expression whose variables do not pass the check is given an
\* empty value.
visitPendingLenient(name, pendingExprs, attributes) ==
    LET expr == pendingExprs[name].value
        check == checkVars(Variables(expr), pendingExprs, attributes)
    IN  IF check = "GlobalEval" THEN [kind |-> "evaluated", val |-> <<>>]
        ELSE IF check # "ok" THEN [kind |-> "continue", val |-> <<>>]
        ELSE IF Eval(expr, attributes).err THEN [kind |-> "continue", val |-> <<>>]
        ELSE [kind |-> "evaluated", val |-> Eval(expr, attributes).val]

\* One pending expression of a pass: what the body of the inner loop does.
visitPending(name, pendingExprs, attributes) ==
    LET expr == pendingExprs[name].value
        check == checkVars(Variables(expr), pendingExprs, attributes)
    IN  IF check = "GlobalEval" THEN [kind |-> "fatal", val |-> <<>>]
        ELSE IF check # "ok" THEN [kind |-> "continue", val |-> <<>>]
        ELSE IF Eval(expr, attributes).err THEN [kind |-> "continue", val |-> <<>>]
        ELSE [kind |-> "evaluated", val |-> Eval(expr, attributes).val]

\* One pass over the pending expressions, in any order of the map: every way
\* the pass can end, as [fatal, pendingExprs, attributes, amountEvaluated].
RECURSIVE rangePending(_, _, _, _)
rangePending(todo, pendingExprs, attributes, amountEvaluated) ==
    IF todo = {}
    THEN {[fatal |-> FALSE, pendingExprs |-> pendingExprs,
           attributes |-> attributes, amountEvaluated |-> amountEvaluated]}
    ELSE UNION {
             LET v == visitPending(name, pendingExprs, attributes)
             IN  IF v.kind = "fatal"
                 THEN {[fatal |-> TRUE, pendingExprs |-> pendingExprs,
                        attributes |-> attributes,
                        amountEvaluated |-> amountEvaluated]}
                 ELSE IF v.kind = "continue"
                 THEN rangePending(todo \ {name}, pendingExprs, attributes,
                                   amountEvaluated)
                 ELSE rangePending(todo \ {name}, MapDel(pendingExprs, {name}),
                                   MapPut(attributes, name, v.val),
                                   amountEvaluated + 1)
             : name \in todo}

\* The result of eval: the error, the number of globals an "unable to
\* evaluate" error names, the Globals returned, and the passes made.
evalResult(err, n, attributes, passes) ==
    [err |-> err, n |-> n, attributes |-> attributes, passes |-> passes]

\* Variant: the globals evaluated so far are returned.
returnEvaluated(pendingExprs, attributes, passes) ==
    evalResult("none", 0, attributes, passes)

\* The end of eval when a pass evaluated nothing: the pending expressions
\* are counted in the error.
unableToEvaluate(pendingExprs, attributes, passes) ==
    evalResult("GlobalEval: unable to evaluate",
               Cardinality(DOMAIN pendingExprs), EmptyMap, passes)

\* Variant: one pass over the pending expressions and no more.
evalSinglePass(pendingExprs, attributes, passes) ==
    IF DOMAIN pendingExprs = {} THEN {evalResult("none", 0, attributes, passes)}
    ELSE {IF p.fatal
          THEN evalResult("GlobalEval: unknown variable", 0, EmptyMap, passes + 1)
          ELSE IF DOMAIN p.pendingExprs # {}
          THEN evalResult("GlobalEval: unable to evaluate",
                          Cardinality(DOMAIN p.pendingExprs), EmptyMap, passes + 1)
          ELSE evalResult("none", 0, p.attributes, passes + 1)
          : p \in rangePending(DOMAIN pendingExprs, pendingExprs, attributes, 0)}

\* The outer loop of eval from the given state on: every outcome.
RECURSIVE evalLoop(_, _, _)
evalLoop(pendingExprs, attributes, passes) ==
    IF DOMAIN pendingExprs = {} THEN {evalResult("none", 0, attributes, passes)}
    ELSE UNION {
             IF p.fatal
             THEN {evalResult("GlobalEval: unknown variable", 0, EmptyMap, passes + 1)}
             ELSE IF p.amountEvaluated = 0
             THEN {unableToEvaluate(p.pendingExprs, p.attributes, passes + 1)}
             ELSE evalLoop(p.pendingExprs, p.attributes, passes + 1)
             : p \in rangePending(DOMAIN pendingExprs, pendingExprs, attributes, 0)}

\* globalsExpr.eval
globalsExprEval(expressions) == evalLoop(expressions, EmptyMap, 0)

\* LoadStackGlobals: every outcome.
LoadStackGlobals(defs, path) ==
    LET globalsExprs == loadStackGlobalsExprs(defs, path)
    IN  IF globalsExprs.err # "none"
        THEN {evalResult(globalsExprs.err, 0, EmptyMap, 0)}
        ELSE globalsExprEval(globalsExprs.expressions)

\* Names and expressions of the globals blocks.
GlobalNames == {"a", "b", "c"}
ChainNames == {"a", "b"}
ChainExprs == {Lit("1"), Lit("2"), Var("global", "b")}
EvalExprs ==
    {Lit("1"), Failing, Var("terramate", "path"), Var("local", "x"),
     Var("global", "u")}
    \cup {Var("global", n) : n \in GlobalNames}
    \cup {Var("global", "a") \o Var("global", "u"),
          Var("global", "a") \o Var("local", "x"),
          Lit("1") \o Var("global", "b")}

----------------------------------------------------------------------------
(* Partial evaluation of an expression (package eval, the engine)          *)
(*                                                                         *)
(* A token is its type and its bytes; the bytes are a sequence of atoms,   *)
(* so that appending bytes to a token is the concatenation of sequences.   *)
(* The engine is a record: the token list, the position of the next token  *)
(* (counted from 1), the stack of nodes, the count of open parentheses and *)
(* err, which is empty while the engine runs and otherwise the chain of    *)
(* the kinds of the error it returned, or the one word "panic".            *)

Tok(type, bytes) == [type |-> type, bytes |-> bytes]

T(type, atom) == Tok(type, <<atom>>)

tokenOQuote == T("OQuote", "\"")
tokenCQuote == T("CQuote", "\"")
tokenOBrack == T("OBrack", "[")
tokenCBrack == T("CBrack", "]")
interpBegin == T("TemplateInterp", "${")
interpEnd == T("TemplateSeqEnd", "}")
tokenEOF == Tok("EOF", <<>>)
tokenNL == T("Newline", "\n")
tokenComment == T("Comment", "/**/")
tokenDot == T("Dot", ".")
tokenIdent(name) == T("Ident", name)
tokenNumber(n) == T("NumberLit", n)
tokenLit(s) == T("QuotedLit", s)

(* The values of the evaluation context *)
NumberVal(n) == [t |-> "number", v |-> n]
StringVal(s) == [t |-> "string", v |-> s]
BoolVal(b) == [t |-> "bool", v |-> b]
ListVal(n) == [t |-> "list", v |-> n]
ObjectVal(n) == [t |-> "object", v |-> n]
NullVal == [t |-> "null", v |-> "null"]

(* hclwrite.TokensForValue: a number is a number literal, a bool and null  *)
(* an identifier, a string a quoted template with one literal (none for    *)
(* the empty string), a list and an object their constructor expressions.  *)
TokensForValue(val) ==
    CASE val.t = "number" -> <<tokenNumber(val.v)>>
      [] val.t \in {"bool", "null"} -> <<tokenIdent(val.v)>>
      [] val.t = "string" ->
            IF val.v = "" THEN <<tokenOQuote, tokenCQuote>>
            ELSE <<tokenOQuote, tokenLit(val.v), tokenCQuote>>
      [] val.t = "list" -> <<tokenOBrack, tokenNumber(val.v), tokenCBrack>>
      [] val.t = "object" ->
            <<T("OBrace", "{"), tokenNL, tokenIdent("a"), T("Equal", "="),
              tokenNumber(val.v), tokenNL, T("CBrace", "}")>>

(* The globals and the metadata the context of the stack holds *)
GlobalValues ==
    [n |-> NumberVal("1"), s |-> StringVal("s"), b |-> BoolVal("true"),
     l |-> ListVal("1"), o |-> ObjectVal("1"), e |-> StringVal("")]

GlobalAttrs == {"n", "s", "b", "l", "o", "e"}

TerramateNamespaces == {"global", "terramate"}

IsNL(tok) == tok.type \in {"Newline", "Comment"}

(* The tokens without newlines and comments, which no value depends on *)
RECURSIVE Significant(_)
Significant(tokens) ==
    IF tokens = <<>> THEN <<>>
    ELSE IF IsNL(Head(tokens)) THEN Significant(Tail(tokens))
    ELSE <<Head(tokens)>> \o Significant(Tail(tokens))

NoValue == [t |-> "error", v |-> ""]

(* Context.Eval on a variable: the traversal from the namespace to a value *)
EvalTraversal(tokens) ==
    LET s == Significant(tokens)
        ty == [i \in 1..Len(s) |-> s[i].type]
        by == [i \in 1..Len(s) |-> s[i].bytes[1]]
    IN  IF Len(s) < 3 \/ ty[1] # "Ident" \/ ty[2] # "Dot" \/ ty[3] # "Ident"
        THEN NoValue
        ELSE IF by[1] = "terramate"
        THEN IF Len(s) = 3 /\ by[3] = "path" THEN StringVal("/s") ELSE NoValue
        ELSE IF by[1] # "global" \/ by[3] \notin GlobalAttrs THEN NoValue
        ELSE IF Len(s) = 3 THEN GlobalValues[by[3]]
        ELSE IF Len(s) = 5 /\ by[3] = "o" /\ ty[4] = "Dot" /\ by[5] = "a"
        THEN NumberVal(GlobalValues.o.v)
        ELSE IF /\ Len(s) = 6 /\ by[3] = "l" /\ ty[4] = "OBrack"
                /\ ty[5] = "NumberLit" /\ by[5] = "0" /\ ty[6] = "CBrack"
        THEN NumberVal(GlobalValues.l.v)
        ELSE NoValue

(* The roots of the variables of a token list: an identifier followed by   *)
(* a dot that is not itself an attribute of something.                     *)
Roots(tokens) ==
    LET s == Significant(tokens)
    IN  { i \in 1..Len(s) - 2 :
            /\ s[i].type = "Ident" /\ s[i + 1].type = "Dot"
            /\ (i = 1 \/ s[i - 1].type # "Dot") }

RECURSIVE chainEnd(_, _)
chainEnd(s, i) ==
    IF i + 2 <= Len(s) /\ s[i + 1].type = "Dot" /\ s[i + 2].type = "Ident"
    THEN chainEnd(s, i + 2) ELSE i

(* The offset of the parenthesis that closes the one at s[i] *)
RECURSIVE closingParen(_, _, _)
closingParen(s, i, depth) ==
    IF i > Len(s) THEN Len(s)
    ELSE LET d == CASE s[i].type = "OParen" -> depth + 1
                    [] s[i].type = "CParen" -> depth - 1
                    [] OTHER -> depth
         IN  IF d = 0 THEN i ELSE closingParen(s, i + 1, d)

(* Token i is an argument of a call of tm_try that starts after the first  *)
(* token: tm_try catches the failure of its arguments.                     *)
InTry(s, i) ==
    \E j \in 2..i - 1 :
        /\ s[j].bytes = <<"tm_try">>
        /\ j + 1 <= Len(s) /\ s[j + 1].type = "OParen"
        /\ i < closingParen(s, j + 1, 0)

(* Context.Eval on a call of a tm_ function: it fails when a variable of   *)
(* the arguments has no value, unless an inner tm_try catches it.  tm_try  *)
(* itself returns its last argument, null, when a variable of its first    *)
(* argument has no value; tm_l returns a list and any other function a     *)
(* string.  The functions take any argument: errors on the types of the    *)
(* arguments are not modelled.                                             *)
EvalCall(tokens) ==
    LET s == Significant(tokens)
        bad == { i \in Roots(tokens) :
                   EvalTraversal(SubSeq(s, i, chainEnd(s, i))).t = "error" }
    IN  IF s[1].bytes = <<"tm_try">>
        THEN IF bad # {} THEN NullVal ELSE StringVal("t")
        ELSE IF \E i \in bad : ~InTry(s, i) THEN NoValue
        ELSE IF s[1].bytes = <<"tm_l">> THEN ListVal("1")
        ELSE StringVal("t")

(* The engine and its nodes *)
NewNode == [source |-> <<>>, evaluated |-> <<>>, hasCond |-> FALSE, hasOp |-> FALSE]

newPartialEngine(tokens) ==
    [tokens |-> tokens, pos |-> 1, evalstack |-> <<>>, nparen |-> 0, err |-> <<>>]

Running(e) == e.err = <<>>

Fail(e, kind) == [e EXCEPT !.err = <<kind>>]

Panic(e) == Fail(e, "panic")

Panicked(e) == e.err = <<"panic">>

(* errutil.Chain: the error kind is put in front of the error returned *)
Chain(kind, e) ==
    IF Running(e) \/ Panicked(e) THEN e ELSE [e EXCEPT !.err = <<kind>> \o @]

hasTokens(e) == e.pos <= Len(e.tokens)

NoToken == Tok("none", <<>>)

(* peek and peekn: reading past the last token is an index out of range,  *)
(* which every user of NoToken turns into a panic.                         *)
peekn(e, n) == IF e.pos + n <= Len(e.tokens) THEN e.tokens[e.pos + n] ELSE NoToken

peek(e) == peekn(e, 0)

tailpos(e) == Len(e.evalstack)

tail(e) == e.evalstack[tailpos(e)]

newnode(e) == [e EXCEPT !.evalstack = Append(@, NewNode)]

commit(e) ==
    IF ~Running(e) THEN e
    ELSE IF tailpos(e) = 1 THEN Panic(e)
    ELSE LET t == tail(e)
             mergeat == tailpos(e) - 1
             m == e.evalstack[mergeat]
             merged == [source |-> m.source \o t.source,
                        evaluated |-> m.evaluated \o t.evaluated,
                        hasCond |-> m.hasCond \/ t.hasCond,
                        hasOp |-> m.hasOp \/ t.hasOp]
         IN  [e EXCEPT !.evalstack =
                 [SubSeq(e.evalstack, 1, mergeat) EXCEPT ![mergeat] = merged]]

emitTokens(e, source, evaluated) ==
    IF ~Running(e) THEN e
    ELSE [e EXCEPT !.evalstack[tailpos(e)].source = @ \o source,
                   !.evalstack[tailpos(e)].evaluated = @ \o evaluated]

emit(e) ==
    IF ~Running(e) THEN e
    ELSE IF ~hasTokens(e) THEN Panic(e)
    ELSE [emitTokens(e, <<peek(e)>>, <<peek(e)>>) EXCEPT !.pos = e.pos + 1]

Min(a, b) == IF a < b THEN a ELSE b

emitn(e, n) ==
    IF ~Running(e) THEN e
    ELSE LET k == Min(n, Len(e.tokens) - e.pos + 1)
             toks == SubSeq(e.tokens, e.pos, e.pos + k - 1)
         IN  [emitTokens(e, toks, toks) EXCEPT !.pos = e.pos + k]

(* skipNewLines: the offset of the first token at or after from that is    *)
(* neither a newline nor a comment; the token list ends with EOF.          *)
RECURSIVE skipNewLines(_, _)
skipNewLines(e, from) ==
    IF hasTokens(e) /\ IsNL(peekn(e, from)) THEN skipNewLines(e, from + 1)
    ELSE from

emitnl(e) ==
    IF ~Running(e) THEN e ELSE emitn(e, skipNewLines(e, 0))

emitnlparens(e) == IF e.nparen > 0 THEN emitnl(e) ELSE e

setParen(e, n) == IF Running(e) THEN [e EXCEPT !.nparen = n] ELSE e

(* A variable found in the tokens: its name, its index and whether its     *)
(* namespace is one of Terramate's.                                        *)
NoVariable == [found |-> FALSE, name |-> <<>>, index |-> <<>>, isTerramate |-> FALSE,
               bad |-> FALSE]

alltokens(v) ==
    IF Len(v.index) > 0
    THEN v.name \o <<tokenOBrack>> \o v.index \o <<tokenCBrack>>
    ELSE v.name

size(v) == IF Len(v.index) > 0 THEN Len(v.name) + Len(v.index) + 2 ELSE Len(v.name)

emitVariable(e, v) ==
    IF ~Running(e) THEN e
    ELSE [emitTokens(e, SubSeq(e.tokens, e.pos, e.pos + size(v) - 1), alltokens(v))
            EXCEPT !.pos = e.pos + size(v)]

CmpOps == {"EqualOp", "NotEqual", "LessThan", "LessThanEq", "GreaterThan", "GreaterThanEq"}
LogicOps == {"Or", "And", "Bang"}
ArithOps == {"Plus", "Minus", "Star", "Slash", "Percent"}

isBinOp(t) == t \in CmpOps \cup ArithOps \cup LogicOps

isForExpr(tok) == tok.type = "Ident" /\ tok.bytes = <<"for">>

TmFunctions == {"tm_s", "tm_l", "tm_try"}

\* Variant: no call is taken for a call of a tm_ function.
isTmFuncallNever(tok) == FALSE

(* strings.HasPrefix(name, "tm_"), over the function names of the model *)
isTmFuncall(tok) == tok.type = "Ident" /\ Len(tok.bytes) = 1 /\ tok.bytes[1] \in TmFunctions

isSameTokens(a, b) ==
    /\ Len(a) = Len(b)
    /\ \A i \in 1..Len(a) : a[i].type = b[i].type /\ a[i].bytes = b[i].bytes

canEvaluateIdent(e) ==
    IF Len(e.tokens) - e.pos + 1 < 2 THEN FALSE
    ELSE peekn(e, skipNewLines(e, 1)).type \in {"Dot", "OParen"}

(* parseIndexing on the tokens from the offset of an open bracket: the     *)
(* offset of the bracket that closes the last index, or -1 when the scan   *)
(* leaves the token list (index out of range).                             *)
RECURSIVE indexEnd(_, _, _)
indexEnd(e, pos, matchingBracks) ==
    IF e.pos + pos > Len(e.tokens) THEN -1
    ELSE LET t == peekn(e, pos).type
             m == CASE t = "OBrack" -> matchingBracks + 1
                    [] t = "CBrack" -> matchingBracks - 1
                    [] OTHER -> matchingBracks
         IN  IF m = 0
             THEN IF e.pos + pos + 1 > Len(e.tokens) THEN -1
                  ELSE IF peekn(e, pos + 1).type = "OBrack"
                  THEN indexEnd(e, pos + 2, 1)
                  ELSE pos
             ELSE indexEnd(e, pos + 1, m)

parseIndexing(e, from) ==
    LET end == indexEnd(e, from + 1, 1)
    IN  IF end = -1 \/ peekn(e, end).type # "CBrack"
        THEN [bad |-> TRUE, index |-> <<>>]
        ELSE [bad |-> FALSE,
              index |-> SubSeq(e.tokens, e.pos + from + 1, e.pos + end - 1)]

(* The loop of parseVariable: the offset after the last token of the name *)
RECURSIVE nameEnd(_, _, _)
nameEnd(e, pos, wantDot) ==
    IF e.pos + pos > Len(e.tokens) THEN pos
    ELSE LET p == IF e.nparen > 0 THEN skipNewLines(e, pos) ELSE pos
             t == peekn(e, p).type
         IN  IF wantDot
             THEN IF t # "Dot" THEN p ELSE nameEnd(e, p + 1, FALSE)
             ELSE IF t \notin {"Ident", "NumberLit", "Star"} THEN p
             ELSE nameEnd(e, p + 1, TRUE)

(* parseVariable on the tokens from the position of the engine *)
parseVariable(e) ==
    IF Len(e.tokens) - e.pos + 1 < 3 \/ peek(e).type # "Ident" THEN NoVariable
    ELSE LET pos == nameEnd(e, skipNewLines(e, 1), TRUE)
             name == SubSeq(e.tokens, e.pos, e.pos + pos - 1)
             ix == IF e.pos + pos <= Len(e.tokens) /\ peekn(e, pos).type = "OBrack"
                   THEN parseIndexing(e, pos)
                   ELSE [bad |-> FALSE, index |-> <<>>]
         IN  IF pos < 3 THEN NoVariable
             ELSE [found |-> TRUE, name |-> name, index |-> ix.index,
                   isTerramate |-> name[1].bytes[1] \in TerramateNamespaces,
                   bad |-> ix.bad]

(* Need: the engine is about to read the token at its position *)
Need(e) == IF Running(e) /\ ~hasTokens(e) THEN Panic(e) ELSE e

setFlag(e, nodePos, flag) ==
    IF ~Running(e) THEN e
    ELSE IF flag = "hasOp" THEN [e EXCEPT !.evalstack[nodePos].hasOp = TRUE]
    ELSE [e EXCEPT !.evalstack[nodePos].hasCond = TRUE]

RECURSIVE evalExpr(_), evalString(_), evalInterp(_), evalIdent(_), evalVar(_),
          evalFuncall(_), evalTmFuncall(_), evalList(_), evalObject(_),
          evalForExpr(_, _, _), evalAcessors(_), evalIndex(_)

(* The prefix of evalExpr: unary operators and comments *)
RECURSIVE unaryLoop(_)
unaryLoop(e0) ==
    LET e == Need(emitnlparens(e0))
    IN  IF ~Running(e) THEN e
        ELSE IF peek(e).type \in {"Bang", "Minus", "Comment"} THEN unaryLoop(emit(e))
        ELSE e

(* The offset of the first CHeredoc or EOF token *)
RECURSIVE heredocEnd(_, _)
heredocEnd(e, i) ==
    IF e.pos + i <= Len(e.tokens) /\ peekn(e, i).type \notin {"CHeredoc", "EOF"}
    THEN heredocEnd(e, i + 1) ELSE i

closeOf(openToken) == IF openToken = "OBrace" THEN "CBrace" ELSE "CBrack"

(* exprTerm: the switch of evalExpr on the first token of the term *)
exprTerm(e) ==
    LET tok == peek(e)
    IN  CASE tok.type = "EOF" -> emit(e)
          [] tok.type = "OHeredoc" ->
                LET e1 == emit(e)
                    e2 == emitn(e1, heredocEnd(e1, 0))
                IN  emit(Need(e2))
          [] tok.type = "OQuote" -> commit(evalString(e))
          [] tok.type = "Ident" ->
                IF tok.bytes \in {<<"true">>, <<"false">>, <<"null">>} THEN emit(e)
                ELSE IF canEvaluateIdent(e) THEN commit(evalIdent(e))
                ELSE emit(e)
          [] tok.type = "OParen" ->
                LET e1 == emitnl(emit(e))
                    e2 == setParen(e1, e1.nparen + 1)
                    e3 == Need(emitnl(commit(evalExpr(e2))))
                IN  IF ~Running(e3) THEN e3
                    ELSE IF peek(e3).type # "CParen" THEN Panic(e3)
                    ELSE setParen(emit(e3), e3.nparen - 1)
          [] tok.type \in {"OBrace", "OBrack"} ->
                LET next == peekn(e, skipNewLines(e, 1))
                IN  IF next.type = "none" THEN Panic(e)
                    ELSE IF isForExpr(next)
                    THEN commit(evalForExpr(e, tok.type, closeOf(tok.type)))
                    ELSE IF tok.type = "OBrace" THEN commit(evalObject(e))
                    ELSE commit(evalList(e))
          [] tok.type = "NumberLit" -> emit(e)
          [] OTHER -> e

(* The end of evalExpr: a binary operation or a conditional *)
exprOperation(e0, thisNode) ==
    LET e == Need(e0)
        t == peek(e).type
    IN  IF ~Running(e) THEN e
        ELSE IF isBinOp(t)
        THEN setFlag(commit(evalExpr(emitnlparens(emit(e)))), thisNode, "hasOp")
        ELSE IF t = "Question"
        THEN LET e1 == Need(commit(evalExpr(emitnlparens(emit(e)))))
             IN  IF ~Running(e1) THEN e1
                 ELSE IF peek(e1).type # "Colon" THEN Panic(e1)
                 ELSE setFlag(commit(evalExpr(emitnlparens(emit(e1)))),
                              thisNode, "hasCond")
        ELSE e

(* evalExpr panics when the term has consumed no token *)
termConsumed(e, beginPos) ==
    IF Running(e) /\ e.pos = beginPos THEN Panic(e) ELSE e

(* evalExpr on the term *)
exprTermAt(e) ==
    IF ~Running(e) THEN e ELSE termConsumed(exprTerm(e), e.pos)

(* evalExpr after the term: the accessors that follow it *)
exprAccessors(e) ==
    IF Running(e) /\ peek(e).type \in {"OBrack", "Dot"}
    THEN commit(evalAcessors(e)) ELSE e

(* evalExpr after the term *)
exprAfterTerm(e, thisNode) ==
    IF ~Running(e) \/ ~hasTokens(e) THEN e
    ELSE exprOperation(emitnlparens(exprAccessors(Need(emitnlparens(e)))), thisNode)

(* evalExpr on its new node *)
exprNode(e) ==
    exprAfterTerm(exprTermAt(Need(emitnlparens(unaryLoop(e)))), tailpos(e))

evalExpr(e0) ==
    IF ~Running(e0) THEN e0 ELSE exprNode(newnode(e0))

evalGetAttr(e0) ==
    LET e1 == Need(newnode(e0))
    IN  IF ~Running(e1) THEN e1
        ELSE IF peek(e1).type # "Dot" THEN Panic(e1)
        ELSE LET e2 == Need(emitnlparens(emit(e1)))
             IN  IF ~Running(e2) THEN e2
                 ELSE IF peek(e2).type \in {"Ident", "NumberLit"} THEN emit(e2)
                 ELSE Panic(e2)

(* The loop of evalAcessors *)
RECURSIVE accessorsLoop(_)

(* The end of one turn of the loop on a dot: neither a splat nor an        *)
(* attribute is the default of the switch.                                 *)
accessorDone(e, found) ==
    IF ~Running(e) THEN e
    ELSE IF ~found THEN Panic(e)
    ELSE accessorsLoop(e)

(* The attribute after a dot, e being the engine after the splat if any *)
accessorAttr(e, splat) ==
    IF Running(e) /\ peek(e).type = "Dot"
    THEN accessorDone(emitnlparens(commit(evalGetAttr(e))), TRUE)
    ELSE accessorDone(emitnlparens(e), splat)

accessorsLoop(e) ==
    IF ~Running(e) \/ ~hasTokens(e) THEN e
    ELSE CASE peek(e).type = "OBrack" -> accessorsLoop(commit(evalIndex(e)))
           [] peek(e).type = "Dot" ->
                LET pos == IF e.nparen > 0 THEN skipNewLines(e, 1) ELSE 1
                    next == peekn(e, pos)
                    splat == next.type = "Star"
                IN  IF next.type = "none" THEN Panic(e)
                    ELSE IF splat THEN accessorAttr(Need(emitn(e, pos + 1)), TRUE)
                    ELSE accessorAttr(e, FALSE)
           [] OTHER -> e

evalAcessors(e0) ==
    LET e1 == Need(newnode(e0))
    IN  IF ~Running(e1) THEN e1
        ELSE IF peek(e1).type \notin {"OBrack", "Dot"} THEN Panic(e1)
        ELSE accessorsLoop(e1)

evalIndex(e0) ==
    LET e1 == Need(setParen(newnode(e0), e0.nparen + 1))
    IN  IF ~Running(e1) THEN e1
        ELSE IF peek(e1).type # "OBrack" THEN Panic(e1)
        ELSE LET e2 == Need(emit(e1))
                 e3 == IF ~Running(e2) THEN e2
                       ELSE IF peek(e2).type = "Star" THEN emit(e2)
                       ELSE commit(evalExpr(e2))
                 e4 == Need(e3)
             IN  IF ~Running(e4) THEN e4
                 ELSE IF peek(e4).type # "CBrack" THEN Panic(e4)
                 ELSE LET e5 == Need(emit(e4))
                          e6 == IF Running(e5) /\ peek(e5).type \in {"OBrack", "Dot"}
                                THEN commit(evalAcessors(e5)) ELSE e5
                      IN  setParen(e6, e6.nparen - 1)

evalIdent(e0) ==
    LET e1 == newnode(e0)
    IN  IF ~Running(e1) THEN e1
        ELSE IF ~canEvaluateIdent(e1) THEN Fail(e1, "malformed")
        ELSE IF peekn(e1, skipNewLines(e1, 1)).type = "Dot" THEN commit(evalVar(e1))
        ELSE commit(evalFuncall(e1))

(* The loop of evalList *)
RECURSIVE listLoop(_)
listLoop(e) ==
    IF ~Running(e) \/ ~hasTokens(e) \/ peek(e).type = "CBrack" THEN e
    ELSE LET e1 == Need(commit(evalExpr(e)))
             e2 == IF Running(e1) /\ peek(e1).type = "Comma" THEN emit(e1) ELSE e1
         IN  listLoop(emitnl(e2))

(* The end of evalList: the closing bracket *)
listClose(e) ==
    IF ~Running(e) THEN e
    ELSE IF ~hasTokens(e) \/ peek(e).type # "CBrack" THEN Panic(e)
    ELSE emit(setParen(e, e.nparen - 1))

evalList(e0) ==
    LET e1 == Need(newnode(e0))
    IN  IF ~Running(e1) THEN e1
        ELSE IF peek(e1).type # "OBrack" THEN Panic(e1)
        ELSE listClose(listLoop(emitnl(emit(setParen(e1, e1.nparen + 1)))))

(* The loop of evalObject *)
RECURSIVE objectLoop(_)
objectLoop(e) ==
    IF ~Running(e) \/ ~hasTokens(e) \/ peek(e).type = "CBrace" THEN e
    ELSE LET e1 == Need(emitnl(commit(evalExpr(e))))
         IN  IF ~Running(e1) THEN e1
             ELSE IF peek(e1).type \notin {"Equal", "Colon"} THEN Panic(e1)
             ELSE LET e2 == Need(commit(evalExpr(emit(e1))))
                      e3 == IF Running(e2) /\ peek(e2).type = "Comma"
                            THEN emit(e2) ELSE e2
                  IN  objectLoop(emitnl(e3))

(* The end of evalObject: the closing brace *)
objectClose(e) ==
    IF ~Running(e) THEN e
    ELSE IF ~hasTokens(e) \/ peek(e).type # "CBrace" THEN Panic(e)
    ELSE emit(e)

evalObject(e0) ==
    LET e1 == Need(newnode(e0))
    IN  IF ~Running(e1) THEN e1
        ELSE IF peek(e1).type # "OBrace" THEN Panic(e1)
        ELSE objectClose(objectLoop(emitnl(emit(e1))))

(* The first loop of evalForExpr: the identifiers up to `in` *)
RECURSIVE forIdents(_)
forIdents(e) ==
    IF ~Running(e) \/ ~hasTokens(e) \/ peek(e).bytes = <<"in">> THEN e
    ELSE LET e1 == Need(emitnl(e))
         IN  IF ~Running(e1) THEN e1
             ELSE IF peek(e1).type # "Ident" THEN Fail(e1, "invalid for")
             ELSE LET e2 == Need(emitnl(emit(e1)))
                  IN  forIdents(IF Running(e2) /\ peek(e2).type = "Comma"
                                THEN emit(e2) ELSE e2)

(* The second loop of evalForExpr: everything up to the closing token *)
RECURSIVE forBody(_, _, _, _, _)

(* One turn of the loop: the token, or the variable v found at it *)
forToken(e, v) ==
    IF ~v.found THEN emit(e)
    ELSE IF v.bad THEN Panic(e)
    ELSE IF v.isTerramate THEN Fail(e, "ForExprDisallowEval")
    ELSE emitVariable(e, v)

forBody(e, matchOpenType, matchCloseType, matching, thisNode) ==
    IF ~Running(e) \/ ~hasTokens(e) \/ matching <= 0 THEN e
    ELSE LET t == peek(e).type
             m == CASE t = matchOpenType -> matching + 1
                    [] t = matchCloseType -> matching - 1
                    [] OTHER -> matching
             e1 == IF t = "Question" THEN setFlag(e, thisNode, "hasCond") ELSE e
         IN  forBody(forToken(e1, parseVariable(e1)),
                     matchOpenType, matchCloseType, m, thisNode)

(* evalForExpr after the identifiers: the `in` and what follows it *)
forIn(e, matchOpenType, matchCloseType, thisNode) ==
    IF ~Running(e) THEN e
    ELSE IF peek(e).type # "Ident" THEN Panic(e)
    ELSE forBody(emit(e), matchOpenType, matchCloseType, 1, thisNode)

evalForExpr(e0, matchOpenType, matchCloseType) ==
    LET e1 == Need(newnode(e0))
        thisNode == tailpos(e1)
    IN  IF ~Running(e1) THEN e1
        ELSE IF peek(e1).type # matchOpenType THEN Panic(e1)
        ELSE LET e2 == Need(emitnl(emit(e1)))
             IN  IF ~Running(e2) THEN e2
                 ELSE IF ~isForExpr(peek(e2)) THEN Panic(e2)
                 ELSE forIn(Need(forIdents(emit(e2))),
                            matchOpenType, matchCloseType, thisNode)

(* The scan of evalTmFuncall: the offset of the parenthesis closing the    *)
(* call, or -1 when the tokens end first.                                  *)
RECURSIVE callEnd(_, _, _)
callEnd(e, i, matchingParens) ==
    IF e.pos + i > Len(e.tokens) THEN -1
    ELSE LET t == peekn(e, i).type
             m == CASE t = "OParen" -> matchingParens + 1
                    [] t = "CParen" -> matchingParens - 1
                    [] OTHER -> matchingParens
         IN  IF m = 0 THEN i ELSE callEnd(e, i + 1, m)

(* evalTmFuncall on the tokens of the call, once evaluated to val *)
tmFuncallValue(e, end, call, val) ==
    IF val.t = "error" THEN Fail(e, "Eval")
    ELSE [emitTokens(e, call, TokensForValue(val)) EXCEPT !.pos = e.pos + end + 1]

(* evalTmFuncall on the call that ends at the offset end *)
tmFuncallAt(e, end, call) ==
    IF end = -1 THEN Panic(e) ELSE tmFuncallValue(e, end, call, EvalCall(call))

evalTmFuncall(e0) ==
    LET e1 == newnode(e0)
        end == callEnd(e1, 2, 1)
    IN  IF ~Running(e1) THEN e1
        ELSE IF Len(e1.tokens) - e1.pos + 1 < 3 THEN Fail(e1, "not a funcall")
        ELSE IF ~isTmFuncall(peek(e1)) \/ peekn(e1, 1).type # "OParen" THEN Panic(e1)
        ELSE tmFuncallAt(e1, end, SubSeq(e1.tokens, e1.pos, e1.pos + end))

(* The loop of evalFuncall over the arguments *)
RECURSIVE argsLoop(_)
argsLoop(e) ==
    IF ~Running(e) \/ ~hasTokens(e) \/ peek(e).type = "CParen" THEN e
    ELSE LET e1 == Need(emitnl(commit(evalExpr(e))))
         IN  IF ~Running(e1) THEN e1
             ELSE IF peek(e1).type \in {"Comma", "Ellipsis"} THEN argsLoop(emitnl(emit(e1)))
             ELSE IF peek(e1).type # "CParen" THEN Panic(e1)
             ELSE argsLoop(emitnl(e1))

(* The end of evalFuncall: the closing parenthesis *)
funcallClose(e) ==
    IF ~Running(e) THEN e
    ELSE IF ~hasTokens(e) \/ peek(e).type # "CParen" THEN Panic(e)
    ELSE emit(setParen(e, e.nparen - 1))

evalFuncall(e0) ==
    IF ~Running(e0) THEN e0
    ELSE IF Len(e0.tokens) - e0.pos + 1 < 3 THEN Fail(e0, "not a funcall")
    ELSE IF peek(e0).type # "Ident" THEN Panic(e0)
    ELSE IF isTmFuncall(peek(e0)) THEN evalTmFuncall(e0)
    ELSE LET e1 == Need(emitnl(emit(newnode(e0))))
         IN  IF ~Running(e1) THEN e1
             ELSE IF peek(e1).type # "OParen" THEN Panic(e1)
             ELSE LET e2 == emitnl(emit(e1))
                  IN  funcallClose(argsLoop(setParen(e2, e2.nparen + 1)))

(* evalVar on a Terramate variable, once evaluated to val *)
varValue(e, v, val) ==
    IF val.t = "error" THEN Fail(e, "Eval")
    ELSE [emitTokens(e, SubSeq(e.tokens, e.pos, e.pos + size(v) - 1),
                     TokensForValue(val))
            EXCEPT !.pos = e.pos + size(v)]

(* evalVar on the variable parsed at the position of the engine *)
varAt(e, v) ==
    IF ~v.found \/ v.bad THEN Panic(e)
    ELSE IF ~v.isTerramate THEN emitVariable(e, v)
    ELSE varValue(e, v, EvalTraversal(alltokens(v)))

evalVar(e0) ==
    LET e1 == newnode(e0)
    IN  IF ~Running(e1) THEN e1 ELSE varAt(e1, parseVariable(e1))

(* needsEval of evalInterp on a node *)
needsEval(n) ==
    \/ isSameTokens(n.source, n.evaluated)
    \/ \E i \in 1..Len(n.evaluated) - 2 :
         /\ n.evaluated[i].type = "Ident"
         /\ \/ n.evaluated[i + 1].type = "Dot" /\ n.evaluated[i + 2].type = "Ident"
            \/ n.evaluated[i + 1].type = "OParen"

shouldEmitInterp(n) == n.hasCond \/ n.hasOp \/ needsEval(n)

evalInterp(e0) ==
    LET e1 == Need(newnode(e0))
    IN  IF ~Running(e1) THEN e1
        ELSE IF peek(e1).type # "TemplateInterp" THEN Panic(e1)
        ELSE LET interpOpen == peek(e1)
                 e2 == Need(commit(evalExpr([e1 EXCEPT !.pos = e1.pos + 1])))
             IN  IF ~Running(e2) THEN e2
                 ELSE IF peek(e2).type # "TemplateSeqEnd" THEN Panic(e2)
                 ELSE LET interpClose == peek(e2)
                          n == tail(e2)
                          wrap(toks) == IF shouldEmitInterp(n)
                                        THEN <<interpOpen>> \o toks \o <<interpClose>>
                                        ELSE toks
                          rewritten == [NewNode EXCEPT !.evaluated = wrap(n.evaluated),
                                                       !.source = wrap(n.source)]
                      IN  [e2 EXCEPT !.pos = e2.pos + 1,
                                     !.evalstack[tailpos(e2)] = rewritten]

(* The first loop of evalString: one node for each part of the string *)
RECURSIVE stringParts(_)
stringParts(e) ==
    IF ~Running(e) \/ ~hasTokens(e) \/ peek(e).type = "CQuote" THEN e
    ELSE CASE peek(e).type = "QuotedLit" -> stringParts(emit(newnode(e)))
           [] peek(e).type = "TemplateInterp" ->
                stringParts(Chain("InterpolationEval", evalInterp(e)))
           [] OTHER -> Panic(e)

(* The position of the TemplateSeqEnd that closes the interpolation open  *)
(* before position p, depth being the number of interpolations open.      *)
RECURSIVE interpClosePos(_, _, _)
interpClosePos(tokens, p, depth) ==
    IF p >= Len(tokens) THEN p
    ELSE IF tokens[p].type = "TemplateInterp" THEN interpClosePos(tokens, p + 1, depth + 1)
    ELSE IF tokens[p].type # "TemplateSeqEnd" THEN interpClosePos(tokens, p + 1, depth)
    ELSE IF depth = 1 THEN p
    ELSE interpClosePos(tokens, p + 1, depth - 1)

(* The position of the last token of the part of a string that starts at  *)
(* position p: a literal is one token, an interpolation ends with its }.  *)
partEnd(tokens, p) ==
    IF tokens[p].type = "TemplateInterp" THEN interpClosePos(tokens, p + 1, 1) ELSE p

(* last.Bytes = append(last.Bytes, bytes) seen from the input: a shared   *)
(* last is the token of the input at rw.at, which the assignment changes. *)
inputAfterAppend(rw, bytes) ==
    IF rw.last = "shared"
    THEN [rw.tokens EXCEPT ![rw.at].bytes = @ \o bytes]
    ELSE rw.tokens

(* last.Bytes = append(last.Bytes, bytes): last is the last evaluated      *)
(* token of the node; when it is a token of the input ("shared") it is     *)
(* also the last source token of the node and a token of the input.        *)
appendToLast(rw, bytes) ==
    LET n == rw.node
        le == Len(n.evaluated)
        ls == Len(n.source)
        n1 == [n EXCEPT !.evaluated[le].bytes = @ \o bytes]
    IN  [rw EXCEPT !.node = IF rw.last = "shared"
                            THEN [n1 EXCEPT !.source[ls].bytes = @ \o bytes]
                            ELSE n1,
                   !.tokens = inputAfterAppend(rw, bytes)]

(* The part that starts at rw.scan has been merged *)
nextPart(rw, scan) == [rw EXCEPT !.scan = partEnd(rw.tokens, scan) + 1]

addPart(rw, part, last) ==
    [rw EXCEPT !.node.evaluated = @ \o part.evaluated,
               !.node.source = @ \o part.source,
               !.last = last,
               !.at = partEnd(rw.tokens, rw.scan),
               !.scan = partEnd(rw.tokens, rw.scan) + 1]

addLiteral(rw, part, bytes) ==
    IF rw.last = "nil"
    THEN [rw EXCEPT !.node.evaluated = Append(@, Tok("QuotedLit", bytes)),
                    !.node.source = @ \o part.source,
                    !.last = "fresh",
                    !.scan = partEnd(rw.tokens, rw.scan) + 1]
    ELSE nextPart(appendToLast(rw, bytes), rw.scan)

(* The second loop of evalString: the parts from i on are merged into the  *)
(* rewritten node; err is "" or the way the loop ended.                    *)
RECURSIVE mergeParts(_, _, _)
mergeParts(e, i, rw) ==
    IF i > tailpos(e) THEN rw
    ELSE LET part == e.evalstack[i]
             t == IF part.evaluated = <<>> THEN "none" ELSE part.evaluated[1].type
         IN  CASE t \in {"OBrace", "OBrack"} -> [rw EXCEPT !.err = "InterpolationEval"]
               [] t = "QuotedLit" ->
                    IF Len(part.evaluated) > 1 THEN [rw EXCEPT !.err = "panic"]
                    ELSE mergeParts(e, i + 1, addPart(rw, part, "shared"))
               [] t = "TemplateInterp" -> mergeParts(e, i + 1, addPart(rw, part, "shared"))
               [] t \in {"NumberLit", "Ident"} ->
                    IF Len(part.evaluated) > 1 THEN [rw EXCEPT !.err = "panic"]
                    ELSE mergeParts(e, i + 1, addLiteral(rw, part, part.evaluated[1].bytes))
               [] t = "OQuote" ->
                    IF Len(part.evaluated) # 3 THEN [rw EXCEPT !.err = "panic"]
                    ELSE mergeParts(e, i + 1, addLiteral(rw, part, part.evaluated[2].bytes))
               [] OTHER -> [rw EXCEPT !.err = "panic"]

quoted(n) ==
    [NewNode EXCEPT !.evaluated = <<tokenOQuote>> \o n.evaluated \o <<tokenCQuote>>,
                    !.source = <<tokenOQuote>> \o n.source \o <<tokenCQuote>>]

\* Variant: the single part is always put back between quotes.
singlePartQuoted(e0) ==
    LET e == commit(e0)
    IN  IF ~Running(e) THEN e
        ELSE [e EXCEPT !.evalstack[tailpos(e)] = quoted(tail(e))]

(* The handling of a single interpolated object by evalString *)
singlePart(e0) ==
    LET e == commit(e0)
        t == tail(e)
    IN  IF ~Running(e) THEN e
        ELSE IF t.evaluated = <<>> THEN Panic(e)
        ELSE IF t.evaluated[1].type \in {"QuotedLit", "TemplateInterp"}
        THEN [e EXCEPT !.evalstack[tailpos(e)] = quoted(t)]
        ELSE e

(* evalString after the merge of the parts *)
stringMerged(e, nodePos, rw) ==
    IF rw.err # "" THEN Fail([e EXCEPT !.tokens = rw.tokens], rw.err)
    ELSE [e EXCEPT !.tokens = rw.tokens,
                   !.evalstack =
                       Append(SubSeq(e.evalstack, 1, nodePos - 1), quoted(rw.node))]

(* evalString after the closing quote: the parts become one node; the     *)
(* string was opened at openPos.                                          *)
stringRewrite(e, nodePos, openPos) ==
    IF tailpos(e) - nodePos = 1 THEN singlePart(e)
    ELSE stringMerged(e, nodePos,
             mergeParts(e, nodePos + 1,
                        [node |-> NewNode, last |-> "nil", err |-> "",
                         tokens |-> e.tokens, at |-> 0, scan |-> openPos + 1]))

(* evalString after the parts: the closing quote *)
stringClose(e, nodePos, openPos) ==
    IF ~Running(e) THEN e
    ELSE IF peek(e).type # "CQuote" THEN Fail(e, "malformed quoted string")
    ELSE stringRewrite([e EXCEPT !.pos = e.pos + 1], nodePos, openPos)

evalString(e0) ==
    LET e1 == Need(newnode(e0))
        nodePos == tailpos(e1)
    IN  IF ~Running(e1) THEN e1
        ELSE IF peek(e1).type # "OQuote" THEN Fail(e1, "not a quoted string")
        ELSE stringClose(Need(stringParts([e1 EXCEPT !.pos = e1.pos + 1])), nodePos,
                         e1.pos)

(* The loop of PartialEval *)
RECURSIVE evalAll(_)
evalAll(e) ==
    IF ~Running(e) \/ ~hasTokens(e) THEN e
    ELSE evalAll(commit(Chain("PartialEval", evalExpr(e))))

(* PartialEval: the evaluated tokens, or the error, and the tokens of the *)
(* input as the call leaves them                                          *)
evaluatedTokens(e) ==
    IF ~Running(e) THEN [err |-> e.err, tokens |-> <<>>, input |-> e.tokens]
    ELSE IF Len(e.evalstack) # 1
    THEN [err |-> <<"panic">>, tokens |-> <<>>, input |-> e.tokens]
    ELSE [err |-> <<>>, tokens |-> e.evalstack[1].evaluated, input |-> e.tokens]

PartialEval(tokens) == evaluatedTokens(evalAll(newnode(newPartialEngine(tokens))))

(* The expressions given to PartialEval: an atom in the hole of at most     *)
(* MaxNest contexts, each context being the tokens before and after its    *)
(* hole.                                                                   *)
MaxNest == 2

Chain3(ns, name) == <<tokenIdent(ns), tokenDot, tokenIdent(name)>>

AtomNames ==
    {"global.n", "global.s", "global.b", "global.l", "global.o", "global.e",
     "global.u", "terramate.path", "var.x", "x", "1", "tm_s()", "tm_l()",
     "tm_try(global.u, null)"}

AtomTokens(a) ==
    CASE a = "global.n" -> Chain3("global", "n")
      [] a = "global.s" -> Chain3("global", "s")
      [] a = "global.b" -> Chain3("global", "b")
      [] a = "global.l" -> Chain3("global", "l")
      [] a = "global.o" -> Chain3("global", "o")
      [] a = "global.e" -> Chain3("global", "e")
      [] a = "global.u" -> Chain3("global", "u")
      [] a = "terramate.path" -> Chain3("terramate", "path")
      [] a = "var.x" -> Chain3("var", "x")
      [] a = "x" -> <<tokenIdent("x")>>
      [] a = "1" -> <<tokenNumber("1")>>
      [] a = "tm_s()" -> <<tokenIdent("tm_s"), T("OParen", "("), T("CParen", ")")>>
      [] a = "tm_l()" -> <<tokenIdent("tm_l"), T("OParen", "("), T("CParen", ")")>>
      [] a = "tm_try(global.u, null)" ->
            <<tokenIdent("tm_try"), T("OParen", "(")>> \o Chain3("global", "u") \o
            <<T("Comma", ","), tokenIdent("null"), T("CParen", ")")>>

QuotedContexts == {"\"${_}\"", "\"a${_}\"", "\"${_}${global.n}\"", "\"%{if _}a%{endif}\""}

ForContexts == {"[for v in _ : v]", "{for k, v in var.m : k => _}"}

ContextNames ==
    QuotedContexts \cup ForContexts \cup
    {"(_)", "( /**/ _ /**/ )", "[_, 2]", "{a = _}", "f(var.a, _)", "tm_s(_)", "var.l[_]",
     "<<EOT ${_} EOT", "_ + 1", "true ? _ : 0", "-_", "_[0]"}

TokensBefore(c) ==
    CASE c = "\"${_}\"" -> <<tokenOQuote, interpBegin>>
      [] c = "\"a${_}\"" -> <<tokenOQuote, tokenLit("a"), interpBegin>>
      [] c = "\"${_}${global.n}\"" -> <<tokenOQuote, interpBegin>>
      [] c = "\"%{if _}a%{endif}\"" ->
            <<tokenOQuote, T("TemplateControl", "%{"), tokenIdent("if")>>
      [] c = "[for v in _ : v]" ->
            <<tokenOBrack, tokenIdent("for"), tokenIdent("v"), tokenIdent("in")>>
      [] c = "{for k, v in var.m : k => _}" ->
            <<T("OBrace", "{"), tokenIdent("for"), tokenIdent("k"), T("Comma", ","),
              tokenIdent("v"), tokenIdent("in")>> \o Chain3("var", "m") \o
            <<T("Colon", ":"), tokenIdent("k"), T("FatArrow", "=>")>>
      [] c = "(_)" -> <<T("OParen", "(")>>
      [] c = "( /**/ _ /**/ )" -> <<T("OParen", "("), tokenNL>>
      [] c = "[_, 2]" -> <<tokenOBrack>>
      [] c = "{a = _}" -> <<T("OBrace", "{"), tokenIdent("a"), T("Equal", "=")>>
      [] c = "f(var.a, _)" ->
            <<tokenIdent("f"), T("OParen", "(")>> \o Chain3("var", "a") \o
            <<T("Comma", ",")>>
      [] c = "tm_s(_)" -> <<tokenIdent("tm_s"), T("OParen", "(")>>
      [] c = "var.l[_]" -> Chain3("var", "l") \o <<tokenOBrack>>
      [] c = "<<EOT ${_} EOT" ->
            <<T("OHeredoc", "<<EOT\n"), T("StringLit", "x"), interpBegin>>
      [] c = "_ + 1" -> <<>>
      [] c = "true ? _ : 0" -> <<tokenIdent("true"), T("Question", "?")>>
      [] c = "-_" -> <<T("Minus", "-")>>
      [] c = "_[0]" -> <<>>

TokensAfter(c) ==
    CASE c = "\"${_}\"" -> <<interpEnd, tokenCQuote>>
      [] c = "\"a${_}\"" -> <<interpEnd, tokenCQuote>>
      [] c = "\"${_}${global.n}\"" ->
            <<interpEnd, interpBegin>> \o Chain3("global", "n") \o
            <<interpEnd, tokenCQuote>>
      [] c = "\"%{if _}a%{endif}\"" ->
            <<interpEnd, tokenLit("a"), T("TemplateControl", "%{"),
              tokenIdent("endif"), interpEnd, tokenCQuote>>
      [] c = "[for v in _ : v]" -> <<T("Colon", ":"), tokenIdent("v"), tokenCBrack>>
      [] c = "{for k, v in var.m : k => _}" -> <<T("CBrace", "}")>>
      [] c = "(_)" -> <<T("CParen", ")")>>
      [] c = "( /**/ _ /**/ )" -> <<tokenNL, tokenComment, T("CParen", ")")>>
      [] c = "[_, 2]" -> <<T("Comma", ","), tokenNumber("2"), tokenCBrack>>
      [] c = "{a = _}" -> <<T("CBrace", "}")>>
      [] c = "f(var.a, _)" -> <<T("CParen", ")")>>
      [] c = "tm_s(_)" -> <<T("CParen", ")")>>
      [] c = "var.l[_]" -> <<tokenCBrack>>
      [] c = "<<EOT ${_} EOT" -> <<interpEnd, T("StringLit", "\n"), T("CHeredoc", "EOT")>>
      [] c = "_ + 1" -> <<T("Plus", "+"), tokenNumber("1")>>
      [] c = "true ? _ : 0" -> <<T("Colon", ":"), tokenNumber("0")>>
      [] c = "-_" -> <<>>
      [] c = "_[0]" -> <<tokenOBrack, tokenNumber("0"), tokenCBrack>>

(* The tokens of an expression: the contexts are listed from the innermost *)
RECURSIVE Wrapped(_, _)
Wrapped(tokens, contexts) ==
    IF contexts = <<>> THEN tokens
    ELSE Wrapped(TokensBefore(Head(contexts)) \o tokens \o TokensAfter(Head(contexts)),
                 Tail(contexts))

ExprTokens(x) == Wrapped(AtomTokens(x.atom), x.contexts)

(* The tokens the lexer gives to the engine end with EOF *)
InputTokens(x) == ExprTokens(x) \o <<tokenEOF>>

(* A quoted template holds no newline, so nothing spanning lines goes in   *)
(* it; the closing delimiter of a heredoc ends its line, so the tokens of  *)
(* a context never follow a heredoc.                                       *)
SpansLines(tokens) ==
    \E i \in 1..Len(tokens) : tokens[i].type \in {"Newline", "Comment"}

HasHeredoc(tokens) == \E i \in 1..Len(tokens) : tokens[i].type = "OHeredoc"

CanWrap(x, c) ==
    /\ Len(x.contexts) < MaxNest
    /\ ~HasHeredoc(ExprTokens(x))
    /\ c \in QuotedContexts => ~SpansLines(ExprTokens(x))

----------------------------------------------------------------------------
(* The parser of a directory (hcl.TerramateParser) and its imports *)

(* The configuration files of the project: /r/s.tm in the root, two files  *)
(* in /r/a and one in each of /r/ab, /r/b and /r/c.                        *)
ConfigFiles ==
    { Root \o <<"/", "s">>,
      Root \o <<"/", "a", "/", "s">>, Root \o <<"/", "a", "/", "t">>,
      Root \o <<"/", "a", "b", "/", "s">>,
      Root \o <<"/", "b", "/", "s">>,
      Root \o <<"/", "c", "/", "s">> }

(* What a file holds besides its import blocks: a syntax error, a          *)
(* generate_hcl block, a top-level attribute x, a stack block, or a        *)
(* globals block with one attribute that has the base name of the file.    *)
FileKinds == {"bad", "block", "attr", "stack", "globals"}

(* filepath.Base *)
Base(path) ==
    LET slashes == {i \in 1..Len(path) : path[i] = "/"}
        last == CHOOSE i \in slashes : \A j \in slashes : j <= i
    IN  SubSeq(path, last + 1, Len(path))

(* filepath.Join(dir, elem) for a clean dir and a clean elem *)
Join(dir, elem) ==
    IF elem = <<"/">> \/ elem = <<>> THEN dir
    ELSE IF elem[1] = "/" THEN dir \o elem
    ELSE dir \o <<"/">> \o elem

(* filepath.IsAbs *)
IsAbs(path) == path # <<>> /\ path[1] = "/"

(* The source of an import block that names a file by its project path *)
ProjectPath(file) == SubSeq(file, Len(Root) + 1, Len(file))

(* errors.E: an error has a kind and a message *)
Err(kind, msg) == [kind |-> kind, msg |-> msg]

(* The blocks of a parsed file, in the order of the file: what it holds,   *)
(* then its import blocks.                                                 *)
FileBlocks(fs, name) ==
    (CASE fs[name].kind = "block" -> <<[type |-> "generate_hcl", origin |-> name]>>
       [] fs[name].kind = "stack" -> <<[type |-> "stack", origin |-> name]>>
       [] fs[name].kind = "globals" ->
              <<[type |-> "globals", origin |-> name, attrs |-> {Base(name)}]>>
       [] OTHER -> <<>>)
    \o [i \in 1..Len(fs[name].imports) |->
          [type |-> "import", origin |-> name, source |-> fs[name].imports[i]]]

(* The top-level attributes of a parsed file *)
FileAttrs(fs, name) ==
    IF fs[name].kind = "attr" THEN <<[name |-> "x", origin |-> name]>> ELSE <<>>

NewTerramateParser(rootdir, dir) ==
    [rootdir |-> rootdir, dir |-> dir, files |-> {},
     MergedAttributes |-> EmptyMap, MergedBlocks |-> EmptyMap, Blocks |-> <<>>,
     parsedFiles |-> EmptyMap, parsed |-> FALSE]

(* addParsedFile(origin, kind, files...) *)
addParsedFile(p, kind, files) ==
    [p EXCEPT !.parsedFiles =
        [f \in DOMAIN p.parsedFiles \cup files |->
            IF f \in files THEN kind ELSE p.parsedFiles[f]]]

internalParsedFiles(p) ==
    sortStrings({f \in DOMAIN p.parsedFiles : p.parsedFiles[f] = "internal"})

(* A parser under work: the parser, the errors appended so far, and        *)
(* whether the recursion on the imports has been found to have no end.     *)
Work(p, errs, endless) == [p |-> p, errs |-> errs, endless |-> endless]

(* A variant of the loop of parseSyntax that returns on the first error *)
RECURSIVE parseSyntaxReturns(_, _, _)
parseSyntaxReturns(w, fs, names) ==
    IF names = <<>> THEN w
    ELSE IF fs[Head(names)].kind = "bad"
    THEN Work(w.p, Append(w.errs, Err("HCLSyntax", Head(names))), FALSE)
    ELSE parseSyntaxReturns(
             Work(addParsedFile(w.p, "internal", {Head(names)}), w.errs, FALSE),
             fs, Tail(names))

(* parseSyntax *)
RECURSIVE parseSyntaxLoop(_, _, _)
parseSyntaxLoop(w, fs, names) ==
    IF names = <<>> THEN w
    ELSE IF fs[Head(names)].kind = "bad"
    THEN parseSyntaxLoop(
             Work(w.p, Append(w.errs, Err("HCLSyntax", Head(names))), FALSE),
             fs, Tail(names))
    ELSE parseSyntaxLoop(
             Work(addParsedFile(w.p, "internal", {Head(names)}), w.errs, FALSE),
             fs, Tail(names))

parseSyntax(p, fs) == parseSyntaxLoop(Work(p, <<>>, FALSE), fs, sortStrings(p.files))

(* mergeAttrs *)
RECURSIVE mergeAttrs(_, _)
mergeAttrs(w, attrs) ==
    IF attrs = <<>> THEN w
    ELSE IF Head(attrs).name \in DOMAIN w.p.MergedAttributes
    THEN mergeAttrs(
             Work(w.p, Append(w.errs, Err("TerramateSchema", "attribute redeclared")),
                  w.endless),
             Tail(attrs))
    ELSE mergeAttrs(
             Work([w.p EXCEPT !.MergedAttributes =
                      MapPut(@, Head(attrs).name, Head(attrs))],
                  w.errs, w.endless),
             Tail(attrs))

addBlock(w, block) == Work([w.p EXCEPT !.Blocks = Append(@, block)], w.errs, w.endless)

(* ast.MergedBlock.MergeBlock: the attributes of the block join those of   *)
(* the merged block; an attribute that is already there is an error.       *)
MergeBlock(w, block, attrs) ==
    IF attrs \cap block.attrs # {}
    THEN Work(w.p, Append(w.errs, Err("TerramateSchema", "attribute redefined")),
              w.endless)
    ELSE Work([w.p EXCEPT !.MergedBlocks =
                  MapPut(@, block.type, [attrs |-> attrs \cup block.attrs])],
              w.errs, w.endless)

mergeBlock(w, block) ==
    IF block.type \in DOMAIN w.p.MergedBlocks
    THEN MergeBlock(w, block, w.p.MergedBlocks[block.type].attrs)
    ELSE MergeBlock(w, block, {})

(* mergeBlocks: every block type of the model has a handler *)
RECURSIVE mergeBlocks(_, _)
mergeBlocks(w, blocks) ==
    IF blocks = <<>> THEN w
    ELSE IF Head(blocks).type \in {"terramate", "globals"}
    THEN mergeBlocks(mergeBlock(w, Head(blocks)), Tail(blocks))
    ELSE mergeBlocks(addBlock(w, Head(blocks)), Tail(blocks))

(* ast.MergedBlocks.AsBlocks: one block per merged block *)
AsBlocks(merged) ==
    IF "globals" \in DOMAIN merged
    THEN <<[type |-> "globals", origin |-> <<>>, attrs |-> merged["globals"].attrs]>>
    ELSE <<>>

(* mergeConfig *)
RECURSIVE mergeConfigLoop(_, _, _)
mergeConfigLoop(w, fs, origins) ==
    IF origins = <<>> THEN w
    ELSE mergeConfigLoop(
             mergeBlocks(mergeAttrs(w, FileAttrs(fs, Head(origins))),
                         FileBlocks(fs, Head(origins))),
             fs, Tail(origins))

mergeConfig(w, fs) == mergeConfigLoop(w, fs, internalParsedFiles(w.p))

(* MergedAttributes.SortedList() *)
SortedList(attrs) == [i \in 1..Len(sortStrings(DOMAIN attrs)) |->
                         attrs[sortStrings(DOMAIN attrs)[i]]]

filterBlocksByType(type, blocks) == SelectSeq(blocks, LAMBDA b : b.type = type)

(* The sub-parser of an import: its file and the parsed files it is given *)
SubParser(p, srcDir, src) ==
    addParsedFile([NewTerramateParser(p.rootdir, srcDir) EXCEPT !.files = {src}],
                  "external",
                  {internalParsedFiles(p)[i] : i \in 1..Len(internalParsedFiles(p))})

RECURSIVE MinimalParse(_, _, _), applyImportsLoop(_, _, _, _), handleImport(_, _, _, _)

(* handleImport after MinimalParse of the sub-parser has returned sub *)
mergeImported(w, sub, src) ==
    IF sub.endless THEN Work(w.p, w.errs, TRUE)
    ELSE IF sub.errs # <<>> THEN Work(w.p, w.errs \o sub.errs, FALSE)
    ELSE LET stacks == filterBlocksByType("stack", sub.p.Blocks)
             m == mergeBlocks(
                      mergeBlocks(
                          mergeAttrs(Work(w.p, <<>>, FALSE),
                                     SortedList(sub.p.MergedAttributes)),
                          AsBlocks(sub.p.MergedBlocks)),
                      sub.p.Blocks)
         IN  IF stacks # <<>> \/ m.errs # <<>>
             THEN Work(m.p,
                       Append(w.errs,
                              Err("Import", "failed to merge imported configuration")),
                       FALSE)
             ELSE Work(addParsedFile(m.p, "external", {src}), w.errs, FALSE)

(* handleImport on the resolved directory and file of the source.  The     *)
(* sub-parsers on the way down are in subs: a sub-parser equal to one of   *)
(* them parses as it did, so the recursion has no end.                     *)
importFile(w, fs, srcDir, src, subs) ==
    IF srcDir = w.p.dir
    THEN Work(w.p, Append(w.errs, Err("Import", "same directory")), FALSE)
    ELSE IF HasPrefix(w.p.dir, srcDir)
    THEN Work(w.p, Append(w.errs, Err("Import", "same tree")), FALSE)
    ELSE IF src \in DOMAIN w.p.parsedFiles
    THEN Work(w.p, Append(w.errs, Err("Import", "already parsed")), FALSE)
    ELSE IF ~HasPrefix(srcDir, w.p.rootdir) \/ src \notin DOMAIN fs
    THEN Work(w.p, Append(w.errs, Err("Import", "sub parser")), FALSE)
    ELSE IF \E i \in 1..Len(subs) : subs[i] = SubParser(w.p, srcDir, src)
    THEN Work(w.p, w.errs, TRUE)
    ELSE mergeImported(
             w,
             MinimalParse(SubParser(w.p, srcDir, src), fs,
                          Append(subs, SubParser(w.p, srcDir, src))),
             src)

handleImport(w, fs, importBlock, subs) ==
    LET srcDir == IF IsAbs(Dir(importBlock.source))
                  THEN Join(w.p.rootdir, Dir(importBlock.source))
                  ELSE Join(w.p.dir, Dir(importBlock.source))
    IN  importFile(w, fs, srcDir, Join(srcDir, Base(importBlock.source)), subs)

(* applyImports: the loop over the import blocks *)
applyImportsLoop(w, fs, importBlocks, subs) ==
    IF importBlocks = <<>> \/ w.endless THEN w
    ELSE applyImportsLoop(handleImport(w, fs, Head(importBlocks), subs),
                          fs, Tail(importBlocks), subs)

applyImports(w, fs, subs) ==
    applyImportsLoop(w, fs, filterBlocksByType("import", w.p.Blocks), subs)

(* MinimalParse once the syntax has been parsed *)
mergeAndImport(w, fs, subs) ==
    IF w.errs # <<>> THEN w ELSE applyImports(mergeConfig(w, fs), fs, subs)

(* defer func() { p.parsed = true }() *)
setParsed(w) == Work([w.p EXCEPT !.parsed = TRUE], w.errs, w.endless)

(* A variant of MinimalParse that parses whether or not p was parsed *)
MinimalParseAgain(p, fs, subs) ==
    setParsed(mergeAndImport(parseSyntax(p, fs), fs, subs))

MinimalParse(p, fs, subs) ==
    IF p.parsed THEN Work(p, <<Err("", "files already parsed")>>, FALSE)
    ELSE setParsed(mergeAndImport(parseSyntax(p, fs), fs, subs))

EmptyConfig == [absdir |-> <<>>, Stack |-> FALSE]

(* parseTerramateSchema: every top-level attribute is unrecognized, a      *)
(* second stack block is duplicated.                                       *)
parseTerramateSchema(p) ==
    LET attrErrs == [i \in 1..Len(SortedList(p.MergedAttributes)) |->
                        Err("TerramateSchema", "unrecognized attribute")]
        stacks == filterBlocksByType("stack", p.Blocks)
        stackErrs == [i \in 1..Len(stacks) - 1 |->
                         Err("TerramateSchema", "duplicated stack block")]
    IN  IF attrErrs \o stackErrs # <<>>
        THEN [config |-> EmptyConfig, errs |-> attrErrs \o stackErrs]
        ELSE [config |-> [absdir |-> p.dir, Stack |-> stacks # <<>>], errs |-> <<>>]

(* Parse once MinimalParse has returned w *)
parseSchema(w) ==
    IF w.endless \/ w.errs # <<>>
    THEN [p |-> w.p, config |-> EmptyConfig, errs |-> w.errs, endless |-> w.endless]
    ELSE [p |-> w.p, endless |-> FALSE] @@ parseTerramateSchema(w.p)

Parse(p, fs) == parseSchema(MinimalParse(p, fs, <<>>))

----------------------------------------------------------------------------
(* The run order of stacks (order.go) *)

(* The stacks of the project, by directory *)
OrderStacks == { <<"/", "a">>, <<"/", "b">>, <<"/", "c">> }

MaxAfter == 2

(* LoadStacks(basedir, dirs...): the stacks of the given dirs, in order *)
LoadStacks(stacks, after) == after

(* buildOrderTree(stack, visited); visited[stack.Dir] is set on entry and *)
(* every after-stack is built on a copy of visited.                       *)
RECURSIVE buildOrderTree(_, _, _)
buildOrderTree(stacks, stack, visited) ==
    LET afterStacks == LoadStacks(stacks, stacks[stack])
    IN  [Stack |-> stack,
         Order |-> [i \in 1..Len(afterStacks) |->
                      IF afterStacks[i] \in visited \cup {stack}
                      THEN [Stack |-> afterStacks[i], Order |-> <<>>, Cycle |-> TRUE]
                      ELSE buildOrderTree(stacks, afterStacks[i],
                                          visited \cup {stack})],
         Cycle |-> FALSE]

BuildOrderTree(stacks, stack) == buildOrderTree(stacks, stack, {})

(* A variant of CheckCycle that finds no cycle *)
CheckCycleNever(tree) == FALSE

(* CheckCycle: TRUE when it returns ErrRunCycleDetected *)
RECURSIVE CheckCycle(_)
CheckCycle(tree) ==
    \E i \in 1..Len(tree.Order) :
        tree.Order[i].Cycle \/ CheckCycle(tree.Order[i])

RECURSIVE IsSubtree(_, _)
IsSubtree(t1, t2) ==
    \/ t1.Stack = t2.Stack
    \/ \E i \in 1..Len(t2.Order) : IsSubtree(t1, t2.Order[i])

(* walkOrderTree with the do of RunOrder: the order so far, extended by    *)
(* the stacks of the tree that are not yet in it, children first.          *)
RECURSIVE walkOrderTree(_, _), walkChildren(_, _)
walkChildren(children, order) ==
    IF children = <<>> THEN order
    ELSE walkChildren(Tail(children), walkOrderTree(Head(children), order))

walkOrderTree(tree, order) ==
    LET below == walkChildren(tree.Order, order)
    IN  IF \E i \in 1..Len(below) : below[i] = tree.Stack
        THEN below
        ELSE Append(below, tree.Stack)

RECURSIVE walkTrees(_, _, _)
walkTrees(trees, keys, order) ==
    IF keys = <<>> THEN order
    ELSE walkTrees(trees, Tail(keys), walkOrderTree(trees[Head(keys)], order))

ErrRunCycleDetected == "cycle detected in run order"

(* RunOrder(stacks) for the given stacks *)
RunOrder(stacks, given) ==
    LET trees == [s \in given |-> BuildOrderTree(stacks, s)]
        removeKeys == { key1 \in given :
                          \E key2 \in given \ {key1} :
                              IsSubtree(trees[key1], trees[key2]) }
    IN  IF \E s \in given : CheckCycle(trees[s])
        THEN [order |-> <<>>, err |-> ErrRunCycleDetected]
        ELSE [order |-> walkTrees(trees, sortStrings(given \ removeKeys), <<>>),
              err |-> ""]

----------------------------------------------------------------------------
(* Actions *)

IdleVal == /\ vgen = <<>> /\ vres = "pending"

NotLoaded == [done |-> FALSE]

NoGlobalsResult == [done |-> FALSE]
IdleGlobals ==
    /\ gdefs = [d \in GlobalsDirs |-> {}]
    /\ gres = NoGlobalsResult
IdleLoad == /\ chain = [d \in ChainDirs |-> <<>>] /\ loaded = NotLoaded

NoCheck == [stack |-> 0, err |-> "none", outdated |-> <<>>]

IdleGen ==
    /\ chk = NoCheck
    /\ cfg = [s \in StackIds |-> EmptyCfg]
    /\ dirs = [s \in StackIds |-> EmptyMap]
    /\ report = NoReport
    /\ ran = FALSE
    /\ prev = dirs
    /\ rerun = [s \in StackIds |-> FALSE]
    /\ wdir = Root

NoPartialResult == [done |-> FALSE, err |-> <<>>, tokens |-> <<>>, input |-> <<>>]

IdlePartial ==
    /\ pexpr = [atom |-> "1", contexts |-> <<>>]
    /\ pres = NoPartialResult

NoParser == [dir |-> <<>>]
NoCall == [op |-> "none"]

(* Every file holds one generate_hcl block and imports nothing *)
IdleParser ==
    /\ pfs = [f \in ConfigFiles |-> [kind |-> "block", imports |-> <<>>]]
    /\ parser = NoParser
    /\ pcall = NoCall

NoOrder == [given |-> {}, order |-> <<>>, err |-> ""]

IdleOrder ==
    /\ ostacks = [s \in OrderStacks |-> <<>>]
    /\ ores = NoOrder

Init ==
    /\ IdleGen /\ IdleVal /\ IdleLoad /\ IdleGlobals /\ IdlePartial
    /\ IdleParser /\ IdleOrder

\* An edit of the inputs makes the last report stale.
Edited ==
    /\ chk' = NoCheck
    /\ report' = NoReport
    /\ ran' = FALSE
    /\ prev' = dirs'
    /\ rerun' = [s \in StackIds |-> FALSE]
    /\ wdir' = Root
    /\ UNCHANGED <<valVars, loadVars, globVars, peVars, parseVars, orderVars>>

\* The user defines, changes or removes a generate block seen by stack s.
SetBlock(s, kind, name, blk) ==
    /\ cfg[s].blocks[<<kind, name>>] # blk
    /\ cfg' = [cfg EXCEPT ![s].blocks[<<kind, name>>] = blk]
    /\ UNCHANGED dirs
    /\ Edited

\* The configuration of stack s starts or stops failing to load.
SetFail(s, f) ==
    /\ cfg[s].fail # f
    /\ cfg' = [cfg EXCEPT ![s].fail = f]
    /\ UNCHANGED dirs
    /\ Edited

\* The user writes a file into the directory of stack s.
PutFile(s, name, content) ==
    /\ ~(name \in DOMAIN dirs[s] /\ dirs[s][name] = content)
    /\ dirs' = [dirs EXCEPT ![s] = MapPut(@, name, content)]
    /\ UNCHANGED cfg
    /\ Edited

\* The user deletes a file of the directory of stack s.
DeleteFile(s, name) ==
    /\ name \in DOMAIN dirs[s]
    /\ dirs' = [dirs EXCEPT ![s] = MapDel(@, {name})]
    /\ UNCHANGED cfg
    /\ Edited

\* generate.Do(root, workingDir)
Do(workingDir) ==
    /\ LET out == forEachStack(workingDir, cfg, dirs)
       IN  /\ report' = out.report
           /\ dirs' = out.dirs
    /\ prev' = dirs
    /\ ran' = TRUE
    /\ wdir' = workingDir
    /\ chk' = NoCheck
    /\ rerun' = [s \in StackIds |->
                    /\ ran
                    /\ report[s].status = "done"
                    /\ report[s].err = "none"
                    /\ HasPrefix(StackPaths[s], workingDir)]
    /\ UNCHANGED <<cfg, valVars, loadVars, globVars, peVars, parseVars, orderVars>>

\* generate.CheckStack(root, st) right after a Do
Check(s) ==
    /\ ran
    /\ chk' = [stack |-> s] @@ CheckStack(cfg[s], dirs[s])
    /\ UNCHANGED <<cfg, dirs, report, ran, prev, rerun, wdir>>
    /\ UNCHANGED <<valVars, loadVars, globVars, peVars, parseVars, orderVars>>

\* The stack whose blocks and files are edited.
TheStack == CHOOSE s \in StackIds : StackPaths[s] = <<"/", "r", "/", "s">>

Next ==
    \/ \E sl \in Slots :
           \E blk \in BlockChoices(sl[1]) : SetBlock(TheStack, sl[1], sl[2], blk)
    \/ \E f \in LoadFails : SetFail(TheStack, f)
    \/ \E n \in FileNames, c \in UserContents : PutFile(TheStack, n, c)
    \/ \E n \in FileNames : DeleteFile(TheStack, n)
    \/ Do(Root)
    \/ Check(TheStack)

Spec == Init /\ [][Next]_vars

----------------------------------------------------------------------------
(* Several stacks: every stack is edited, Do is given any working dir *)

FewBlocks == {NoBlock, [present |-> TRUE, cond |-> TRUE, body |-> <<"x">>]}

NextStacks ==
    \/ \E s \in StackIds, blk \in FewBlocks : SetBlock(s, "hcl", <<"a">>, blk)
    \/ \E s \in StackIds, f \in {"none", "globals", "genfile"} : SetFail(s, f)
    \/ \E s \in StackIds : PutFile(s, <<"a">>, <<"u">>)
    \/ \E wd \in WorkingDirs : Do(wd)

SpecStacks == Init /\ [][NextStacks]_vars

----------------------------------------------------------------------------
(* validateGeneratedFiles applied to any list of generators *)

\* One more generator is loaded.  The list is built as Do and CheckStack
\* build it: the generate_file blocks first, then the generate_hcl blocks, the
\* labels of one kind being unique.
AddGenerated(g) ==
    /\ Len(vgen) < MaxGenerated
    /\ \A i \in 1..Len(vgen) :
           /\ ~(vgen[i].kind = g.kind /\ vgen[i].name = g.name)
           /\ g.kind = "file" => vgen[i].kind = "file"
    /\ vgen' = Append(vgen, g)
    /\ vres' = "pending"
    /\ UNCHANGED <<genVars, loadVars, globVars, peVars, parseVars, orderVars>>

Validate ==
    /\ vres = "pending"
    /\ vres' = validateGeneratedFiles(vgen)
    /\ UNCHANGED <<vgen, genVars, loadVars, globVars, peVars, parseVars, orderVars>>

NextValidate ==
    \/ \E g \in ValGenerators : AddGenerated(g)
    \/ Validate

SpecValidate == Init /\ [][NextValidate]_vars

----------------------------------------------------------------------------
(* Loading the generate_file blocks of the stack in LoadStackDir *)

\* A generate_file block is added to the configuration of a directory.
AddGenerateFile(d, label) ==
    /\ Len(chain[d]) < MaxBlocksPerDir
    /\ chain' = [chain EXCEPT ![d] = Append(@, label)]
    /\ loaded' = NotLoaded
    /\ UNCHANGED <<genVars, valVars, globVars, peVars, parseVars, orderVars>>

\* genfile.Load and genfilehcl.Load as far as the blocks are collected.
LoadBlocks ==
    /\ ~loaded.done
    /\ \E r \in genfileLoadGenFileBlocks(chain, LoadRoot, LoadStackDir) :
           loaded' = [done |-> TRUE,
                      genfile |-> r,
                      genfilehcl |->
                          genfilehclLoadGenFileBlocks(chain, LoadRoot, LoadStackDir)]
    /\ UNCHANGED <<chain, genVars, valVars, globVars, peVars, parseVars, orderVars>>

NextLoad ==
    \/ \E d \in ChainDirs, l \in BlockLabels : AddGenerateFile(d, l)
    \/ LoadBlocks

SpecLoad == Init /\ [][NextLoad]_vars

----------------------------------------------------------------------------
(* Loading the globals of the stack in GlobalsStackPath *)

\* An attribute is added to a globals block of directory d.
AddGlobal(d, name, expr) ==
    /\ Cardinality(gdefs[d]) < MaxDefsPerDir
    /\ [name |-> name, expr |-> expr] \notin gdefs[d]
    /\ gdefs' = [gdefs EXCEPT ![d] = @ \cup {[name |-> name, expr |-> expr]}]
    /\ gres' = NoGlobalsResult
    /\ UNCHANGED <<genVars, valVars, loadVars, peVars, parseVars, orderVars>>

\* LoadStackGlobals(rootdir, meta)
LoadGlobals ==
    /\ ~gres.done
    /\ \E r \in LoadStackGlobals(gdefs, GlobalsStackPath) :
           gres' = [done |-> TRUE, err |-> r.err, n |-> r.n,
                    attributes |-> r.attributes, passes |-> r.passes]
    /\ UNCHANGED <<gdefs, genVars, valVars, loadVars, peVars, parseVars, orderVars>>

\* Globals over the chain of directories.
NextChain ==
    \/ \E d \in GlobalsDirs, n \in ChainNames, e \in ChainExprs : AddGlobal(d, n, e)
    \/ LoadGlobals

SpecChain == Init /\ [][NextChain]_vars

\* Globals of one directory, with every kind of expression.
NextEval ==
    \/ \E n \in GlobalNames, e \in EvalExprs : AddGlobal(GlobalsStackPath, n, e)
    \/ LoadGlobals

SpecEval == Init /\ [][NextEval]_vars

----------------------------------------------------------------------------
(* Partial evaluation of one expression *)

SetAtom(a) ==
    /\ ~pres.done
    /\ pexpr.contexts = <<>>
    /\ pexpr' = [pexpr EXCEPT !.atom = a]
    /\ UNCHANGED <<pres, genVars, valVars, loadVars, globVars, parseVars, orderVars>>

WrapExpr(c) ==
    /\ ~pres.done
    /\ CanWrap(pexpr, c)
    /\ pexpr' = [pexpr EXCEPT !.contexts = Append(@, c)]
    /\ UNCHANGED <<pres, genVars, valVars, loadVars, globVars, parseVars, orderVars>>

DoPartialEval ==
    /\ ~pres.done
    /\ pres' = [done |-> TRUE] @@ PartialEval(InputTokens(pexpr))
    /\ UNCHANGED <<pexpr, genVars, valVars, loadVars, globVars, parseVars, orderVars>>

NextPartial ==
    \/ \E a \in AtomNames : SetAtom(a)
    \/ \E c \in ContextNames : WrapExpr(c)
    \/ DoPartialEval

SpecPartial == Init /\ [][NextPartial]_vars

----------------------------------------------------------------------------
(* Parsing the directory ParserDirs of a project whose files are edited *)

MaxFileEdits == 3

ParserDirs == { Root \o <<"/", "a">>, Root \o <<"/", "a", "b">> }

(* The files whose content is edited: those of /r/a and /r/b; the others *)
(* hold a generate_hcl block and the imports they are given.               *)
EditedFiles == { f \in ConfigFiles : Dir(f) \in {Root \o <<"/", "a">>, Root \o <<"/", "b">>} }

(* The files that import and the files that are imported *)
Importers == { f \in ConfigFiles : Dir(f) # Root /\ Base(f) = <<"s">> }
ImportSources == { ProjectPath(f) : f \in { g \in ConfigFiles : Base(g) = <<"s">> } }

FileEdits ==
    Cardinality({f \in ConfigFiles : pfs[f].kind # "block"})
    + Cardinality({<<f, i>> \in ConfigFiles \X (1..MaxFileEdits) :
                      i <= Len(pfs[f].imports)})

SetKind(f, k) ==
    /\ parser = NoParser
    /\ FileEdits < MaxFileEdits
    /\ pfs[f].kind = "block"
    /\ pfs' = [pfs EXCEPT ![f].kind = k]
    /\ UNCHANGED <<parser, pcall, genVars, valVars, loadVars, globVars, peVars, orderVars>>

AddImport(f, src) ==
    /\ parser = NoParser
    /\ FileEdits < MaxFileEdits
    /\ \A i \in 1..Len(pfs[f].imports) : pfs[f].imports[i] # src
    /\ pfs' = [pfs EXCEPT ![f].imports = Append(@, src)]
    /\ UNCHANGED <<parser, pcall, genVars, valVars, loadVars, globVars, peVars, orderVars>>

(* NewTerramateParser(rootdir, dir) followed by AddDir(dir) *)
NewParser(dir) ==
    /\ parser = NoParser
    /\ parser' = [NewTerramateParser(Root, dir) EXCEPT
                     !.files = {f \in ConfigFiles : Dir(f) = dir}]
    /\ UNCHANGED <<pfs, pcall, genVars, valVars, loadVars, globVars, peVars, orderVars>>

(* A call that does not return leaves the parser as it was *)
CallParse ==
    /\ parser # NoParser
    /\ LET r == Parse(parser, pfs)
       IN  /\ pcall' = [op |-> "Parse", before |-> parser, config |-> r.config,
                        errs |-> r.errs, endless |-> r.endless]
           /\ parser' = IF r.endless THEN parser ELSE r.p
    /\ UNCHANGED <<pfs, genVars, valVars, loadVars, globVars, peVars, orderVars>>

CallMinimalParse ==
    /\ parser # NoParser
    /\ LET r == MinimalParse(parser, pfs, <<>>)
       IN  /\ pcall' = [op |-> "MinimalParse", before |-> parser,
                        config |-> EmptyConfig,
                        errs |-> r.errs, endless |-> r.endless]
           /\ parser' = IF r.endless THEN parser ELSE r.p
    /\ UNCHANGED <<pfs, genVars, valVars, loadVars, globVars, peVars, orderVars>>

NextParser ==
    \/ \E f \in EditedFiles, k \in FileKinds \ {"block"} : SetKind(f, k)
    \/ \E f \in Importers, src \in ImportSources : AddImport(f, src)
    \/ \E d \in ParserDirs : NewParser(d)
    \/ CallParse
    \/ CallMinimalParse

SpecParser == Init /\ [][NextParser]_vars

----------------------------------------------------------------------------
(* The run order of any stacks of a project whose After lists are edited *)

AddAfter(s, a) ==
    /\ Len(ostacks[s]) < MaxAfter
    /\ \A i \in 1..Len(ostacks[s]) : ostacks[s][i] # a
    /\ ostacks' = [ostacks EXCEPT ![s] = Append(@, a)]
    /\ ores' = NoOrder
    /\ UNCHANGED <<genVars, valVars, loadVars, globVars, peVars, parseVars>>

CallRunOrder(given) ==
    /\ ores' = [given |-> given] @@ RunOrder(ostacks, given)
    /\ UNCHANGED <<ostacks, genVars, valVars, loadVars, globVars, peVars, parseVars>>

NextOrder ==
    \/ \E s \in OrderStacks, a \in OrderStacks : AddAfter(s, a)
    \/ \E given \in SUBSET OrderStacks \ {{}} : CallRunOrder(given)

SpecOrder == Init /\ [][NextOrder]_vars

----------------------------------------------------------------------------
(* What the properties below speak about: the last Do, seen from TheStack *)

StackReport == report[TheStack]
Before == prev[TheStack]
After == dirs[TheStack]

\* The generators of TheStack, and those whose file Do saves.
Generators ==
    LET l == loadKind(cfg[TheStack], "file") \o loadKind(cfg[TheStack], "hcl")
    IN  {l[i] : i \in 1..Len(l)}
Saving == {g \in Generators : g.cond /\ g.body # <<>>}

Processed == ran /\ StackReport.status = "done"
Succeeded == Processed /\ StackReport.err = "none"

\* Errors raised before any file is touched.
EarlyErrors == {"LoadingGlobals", "LoadGenFile", "LoadGenHCL",
                "ConflictingConfig", "InvalidFilePath"}

\* The files Do takes for generated when it starts: those with a header and
\* those named by a generate_file block.
Remembered ==
    {n \in DOMAIN Before :
        \/ hasGenHCLHeader(Before[n])
        \/ \E g \in Generators : g.kind = "file" /\ g.name = n}

----------------------------------------------------------------------------
(* C1 *)

\* C1: a Do that repeats a successful Do for a stack, with the configuration
\* and the stack directory unchanged in between, reports no error and no
\* created, changed or deleted file for that stack.
C1_Idempotent ==
    \A s \in StackIds :
        rerun[s] =>
            /\ report[s].err = "none"
            /\ report[s].created = {}
            /\ report[s].changed = {}
            /\ report[s].deleted = {}

\* A second run over a directory that holds a generate_file and a
\* generate_hcl output.
C1_Witness ==
    /\ rerun[TheStack]
    /\ \E g \in Saving : g.kind = "file" /\ g.name \in DOMAIN After
    /\ \E g \in Saving : g.kind = "hcl" /\ g.name \in DOMAIN After

----------------------------------------------------------------------------
(* C2 *)

----------------------------------------------------------------------------
(* C3 *)

\* A file written by hand: it carries no header.
Manual(dir, n) == n \in DOMAIN dir /\ ~hasGenHCLHeader(dir[n])

\* Do got as far as saving files: blocks loaded, generated files validated.
ReachedSaving == Processed /\ StackReport.err \notin EarlyErrors

\* C3 as stated: whenever the file a generate_hcl block is saved to exists
\* without a header, Do fails with ManualCodeExists and leaves the file as it
\* was.
C3_Original ==
    ReachedSaving =>
        \A g \in Saving :
            (g.kind = "hcl" /\ Manual(Before, g.name)) =>
                /\ StackReport.err = "ManualCodeExists"
                /\ g.name \in DOMAIN After
                /\ After[g.name] = Before[g.name]

\* C3 (amended): whenever the file a generate_hcl block is saved to exists
\* without a header and no generate_file block carries the same name, Do fails
\* with ManualCodeExists and leaves the file as it was.
C3_ManualCodeKept ==
    ReachedSaving =>
        \A g \in Saving :
            (/\ g.kind = "hcl"
             /\ Manual(Before, g.name)
             /\ ~\E f \in Generators : f.kind = "file" /\ f.name = g.name) =>
                /\ StackReport.err = "ManualCodeExists"
                /\ g.name \in DOMAIN After
                /\ After[g.name] = Before[g.name]

\* Do refused to save generate_hcl "b" over a file written by hand, after
\* saving "a".
C3_Witness ==
    /\ ReachedSaving
    /\ StackReport.err = "ManualCodeExists"
    /\ \E g \in Saving : g.kind = "hcl" /\ g.name = <<"b">>
    /\ Manual(Before, <<"b">>)
    /\ After[<<"b">>] = Before[<<"b">>]
    /\ <<"a">> \in DOMAIN After /\ hasGenHCLHeader(After[<<"a">>])

----------------------------------------------------------------------------
(* C4 *)

\* A file Terramate cannot have generated: no generator has this content.
HandWritten == <<"u">>

\* C4 as stated: a file that Terramate did not generate and that has the name
\* of a generate_file block is neither deleted nor overwritten by Do.
C4_Original ==
    Processed =>
        \A g \in Generators :
            (/\ g.kind = "file"
             /\ g.name \in DOMAIN Before
             /\ Before[g.name] = HandWritten) =>
                /\ g.name \in DOMAIN After
                /\ After[g.name] = Before[g.name]

\* C4 (amended): a Do that gets as far as saving files takes every existing
\* file that has the name of a generate_file block for generated, whatever
\* the block's condition: the file is deleted and reported deleted, or it is
\* overwritten with the code of the generator saved under that name.
C4_GenFileNameTaken ==
    ReachedSaving =>
        \A g \in Generators :
            (g.kind = "file" /\ g.name \in DOMAIN Before) =>
                \/ /\ g.name \notin DOMAIN After
                   /\ g.name \in StackReport.deleted
                \/ /\ g.name \in DOMAIN After
                   /\ \E h \in Saving : /\ h.name = g.name
                                        /\ After[g.name] = fileCode(h)

\* A hand-written file deleted for a generate_file block whose condition is
\* false.
C4_Witness ==
    /\ Succeeded
    /\ \E g \in Generators : g.kind = "file" /\ ~g.cond /\ g.name = <<"a">>
    /\ <<"a">> \in DOMAIN Before /\ Before[<<"a">>] = HandWritten
    /\ <<"a">> \notin DOMAIN After
    /\ <<"a">> \in StackReport.deleted

----------------------------------------------------------------------------
(* C6 *)

\* A file of that name Do can tell was generated: it carries a header, or
\* the generator is a generate_file block.
PriorVersion(g) ==
    /\ g.name \in DOMAIN Before
    /\ (hasGenHCLHeader(Before[g.name]) \/ g.kind = "file")

\* Do did not write the file n.
NotWritten(n) ==
    \/ n \notin DOMAIN After
    \/ n \in DOMAIN Before /\ After[n] = Before[n] /\ n \notin Remembered

\* C6 as stated: in a successful Do a generator with a false condition or an
\* empty body writes no file, and a previously generated file of its name is
\* removed and reported deleted.
C6_Original ==
    Succeeded =>
        \A g \in Generators \ Saving :
            PriorVersion(g) =>
                /\ g.name \notin DOMAIN After
                /\ g.name \in StackReport.deleted

\* C6 (amended): in a successful Do a generator with a false condition or an
\* empty body writes no file, and unless a generator of the other kind is
\* saved under the same name, no file of that name is written and a
\* previously generated file of that name (one with a header, or any file for
\* a generate_file block) is removed and reported deleted.
C6_NothingProduced ==
    Succeeded =>
        \A g \in Generators \ Saving :
            (~\E h \in Saving : h.name = g.name) =>
                /\ NotWritten(g.name)
                /\ PriorVersion(g) =>
                       /\ g.name \notin DOMAIN After
                       /\ g.name \in StackReport.deleted

\* A generate_hcl block with an empty body whose earlier file is deleted.
C6_Witness ==
    /\ Succeeded
    /\ \E g \in Generators :
           /\ g.kind = "hcl" /\ g.cond /\ g.body = <<>>
           /\ PriorVersion(g)
           /\ g.name \notin DOMAIN After
           /\ g.name \in StackReport.deleted

----------------------------------------------------------------------------
(* C7 *)

\* C7 as stated: a file saved by a successful Do begins with the current
\* header exactly if it comes from a generate_hcl block.
C7_Original ==
    Succeeded =>
        \A g \in Saving :
            /\ g.name \in DOMAIN After
            /\ (After[g.name][1] = Header) <=> (g.kind = "hcl")

\* C7 (amended): a file saved by a successful Do from a generate_hcl block
\* begins with the current header; a file saved from a generate_file block
\* is the content of the block and nothing else, so it begins with the
\* header only if that content does.
C7_HeaderByKind ==
    Succeeded =>
        \A g \in Saving :
            /\ g.name \in DOMAIN After
            /\ g.kind = "hcl" => After[g.name][1] = Header
            /\ g.kind = "file" => After[g.name] = g.body

\* One run saves a generate_file and a generate_hcl output.
C7_Witness ==
    /\ Succeeded
    /\ \E g \in Saving : g.kind = "hcl" /\ After[g.name][1] = Header
    /\ \E g \in Saving : g.kind = "file" /\ After[g.name][1] # Header

----------------------------------------------------------------------------
(* C10 *)

\* C10 as stated: when the stack report carries an error the stack directory
\* is as it was before the run.
C10_Original ==
    (ran /\ StackReport.err # "none") => After = Before

\* C10 (amended): when the stack report carries an error raised before the
\* files are saved (globals, block loading, validation) the stack directory
\* is as it was before the run; when saving fails with ManualCodeExists the
\* files taken for generated have been removed, each is reported deleted
\* unless a generator sorted before the failing one wrote it again, and the
\* other files are as they were.
C10_ErrorEffects ==
    (ran /\ StackReport.err # "none") =>
        /\ StackReport.err \in EarlyErrors => After = Before
        /\ StackReport.err = "ManualCodeExists" =>
               /\ \A n \in Remembered :
                      \/ n \notin DOMAIN After /\ n \in StackReport.deleted
                      \/ /\ n \in DOMAIN After
                         /\ \E g \in Saving : g.name = n /\ After[n] = fileCode(g)
               /\ \A n \in DOMAIN Before \ Remembered :
                      n \in DOMAIN After /\ After[n] = Before[n]

\* Saving failed after a generated file was removed.
C10_Witness ==
    /\ ran
    /\ StackReport.err = "ManualCodeExists"
    /\ \E n \in DOMAIN Before : n \notin DOMAIN After /\ n \in StackReport.deleted

----------------------------------------------------------------------------
(* C5 *)

\* C5: validateGeneratedFiles fails with ConflictingConfig exactly if two of
\* the generators have a true condition and the same file name.
C5_ConflictIffTwoEnabled ==
    vres # "pending" =>
        ((vres = "ConflictingConfig") <=>
             \E i \in 1..Len(vgen), j \in 1..Len(vgen) :
                 /\ i < j
                 /\ vgen[i].name = vgen[j].name
                 /\ vgen[i].cond /\ vgen[j].cond)

----------------------------------------------------------------------------
(* C8 *)

\* The label is defined in two different directories of the chain.
DefinedTwice(l) ==
    \E d1 \in ChainDirs, d2 \in ChainDirs :
        /\ d1 # d2
        /\ \E i \in 1..Len(chain[d1]) : chain[d1][i] = l
        /\ \E i \in 1..Len(chain[d2]) : chain[d2][i] = l

\* C8: loading the blocks of a stack fails whenever two directories of its
\* ancestor chain define a block of the same label.
C8_LabelsUniqueOverChain ==
    (loaded.done /\ \E l \in BlockLabels : DefinedTwice(l)) =>
        /\ loaded.genfile.err # "none"
        /\ loaded.genfilehcl.err # "none"

----------------------------------------------------------------------------
(* C9 *)

\* The path is the directory or lies below it.
IsInside(path, dir) == path = dir \/ HasPrefix(path, dir \o <<"/">>)

\* C9: whatever happens to the other stacks, every stack inside the working
\* dir is processed: a stack whose globals fail to load is reported as failed
\* and left alone, every other stack gets the report and the files that Do
\* produces from its own configuration and directory.
C9_StackIsolation ==
    ran =>
        \A s \in StackIds :
            IsInside(StackPaths[s], wdir) =>
                IF cfg[s].fail = "globals"
                THEN /\ report[s] = stackReport("failed", "LoadingGlobals")
                     /\ dirs[s] = prev[s]
                ELSE /\ report[s] = DoStack(cfg[s], prev[s]).rep
                     /\ dirs[s] = DoStack(cfg[s], prev[s]).dir

\* The first stack fails to generate, the second fails to load its globals,
\* the third gets its file.
C9_Witness ==
    /\ ran
    /\ wdir = Root
    /\ report[1].err = "ManualCodeExists"
    /\ report[2].err = "LoadingGlobals"
    /\ report[3].err = "none" /\ report[3].created = {<<"a">>}
    /\ <<"a">> \in DOMAIN dirs[3]

----------------------------------------------------------------------------
(* C11 *)

\* C11: Do generates, deletes and reports only for the stacks whose directory
\* is the working dir or lies below it; every other stack, a sibling whose
\* name starts with the name of the working dir included, has no error and no
\* file in its report and keeps its files.
C11_OnlyInsideWorkingDir ==
    ran =>
        \A s \in StackIds :
            ~IsInside(StackPaths[s], wdir) =>
                /\ report[s].err = "none"
                /\ report[s].created = {}
                /\ report[s].changed = {}
                /\ report[s].deleted = {}
                /\ dirs[s] = prev[s]

----------------------------------------------------------------------------
(* C12 *)

\* The directories whose globals blocks define the name, and the one of them
\* closest to the stack.
DefinedIn(name) == {d \in GlobalsDirs : \E x \in gdefs[d] : x.name = name}
Closest(name) ==
    CHOOSE d \in DefinedIn(name) : \A e \in DefinedIn(name) : Len(e) <= Len(d)
ExprAt(name, d) == (CHOOSE x \in gdefs[d] : x.name = name).expr

GlobalsLoaded == gres.done /\ gres.err = "none"

\* C12: when the globals of the stack are loaded, every name defined in some
\* directory of the chain has the value of the expression given to it in the
\* defining directory closest to the stack.
C12_ClosestDefinitionWins ==
    GlobalsLoaded =>
        \A name \in ChainNames :
            DefinedIn(name) # {} =>
                /\ name \in DOMAIN gres.attributes
                /\ gres.attributes[name] =
                       Eval(ExprAt(name, Closest(name)), gres.attributes).val

\* The name a is defined in the root and in the stack directory, not in the
\* directory between them, and has the value given in the stack directory.
C12_Witness ==
    /\ GlobalsLoaded
    /\ DefinedIn("a") = {<<"/">>, GlobalsStackPath}
    /\ ExprAt("a", <<"/">>) = Lit("1")
    /\ ExprAt("a", GlobalsStackPath) = Lit("2")
    /\ gres.attributes["a"] = <<"2">>

----------------------------------------------------------------------------
(* C13 *)

\* The globals of the stack directory, when no name is defined twice.
Pending == {x.name : x \in gdefs[GlobalsStackPath]}
PendingExpr(name) == ExprAt(name, GlobalsStackPath)
WellDefined == ~redefined(gdefs[GlobalsStackPath])

\* The names the expression of a global refers to as global.X.
Refs(name) ==
    {PendingExpr(name)[i].name :
        i \in {j \in 1..Len(PendingExpr(name)) : PendingExpr(name)[j].ns = "global"}}

\* The globals reached from a global by one or more references.
RECURSIVE ReachedIn(_, _)
ReachedIn(names, k) ==
    IF k = 0 THEN {}
    ELSE LET next == UNION {Refs(n) \cap Pending : n \in names}
         IN  next \cup ReachedIn(next, k - 1)
Reached(name) == ReachedIn({name}, Cardinality(Pending))

Acyclic == \A n \in Pending : n \notin Reached(n)

\* Every expression refers to defined globals and registered namespaces
\* only, and evaluates once the globals it refers to have a value.
Evaluable(name) ==
    /\ Refs(name) \subseteq Pending
    /\ \A i \in 1..Len(PendingExpr(name)) :
           PendingExpr(name)[i].ns \in Namespaces \cup {"lit"}

EvalDone == gres.done /\ WellDefined

----------------------------------------------------------------------------
(* C14 *)

\* The global refers to itself, directly or through other globals.
OnCycle(name) == name \in Reached(name)

\* Evaluating the expression fails even with every global resolved.
HasFailing(name) ==
    \E i \in 1..Len(PendingExpr(name)) : PendingExpr(name)[i].ns = "fail"

\* The globals on a cycle or depending on one.
CycleBound == {n \in Pending : \E m \in {n} \cup Reached(n) : OnCycle(m)}

\* The globals that are on a cycle, fail to evaluate, or depend on such one.
Stuck ==
    {n \in Pending : \E m \in {n} \cup Reached(n) : OnCycle(m) \/ HasFailing(m)}

\* Every variable is a defined global or of a registered namespace.
AllDefined ==
    \A n \in Pending :
        /\ Refs(n) \subseteq Pending
        /\ \A i \in 1..Len(PendingExpr(n)) :
               PendingExpr(n)[i].ns \in Namespaces \cup {"lit", "fail"}

----------------------------------------------------------------------------
(* C15 *)

\* The expression of the global has a variable of a namespace that is not
\* registered, or refers to a global that is not defined.
RefersToUndefined(name) ==
    \/ ~(Refs(name) \subseteq Pending)
    \/ \E i \in 1..Len(Variables(PendingExpr(name))) :
           Variables(PendingExpr(name))[i].ns \notin Namespaces

GlobalEvalErrors == {"GlobalEval: unknown variable", "GlobalEval: unable to evaluate"}

----------------------------------------------------------------------------
(* What the properties on partial evaluation speak about *)

RECURSIVE Text(_)
Text(tokens) == IF tokens = <<>> THEN <<>> ELSE Head(tokens).bytes \o Text(Tail(tokens))

(* A variable rooted at global or terramate starts at token i *)
TerramateRefAt(tokens, i) ==
    /\ i + 1 <= Len(tokens)
    /\ tokens[i].type = "Ident"
    /\ tokens[i].bytes[1] \in TerramateNamespaces
    /\ tokens[i + 1].type = "Dot"
    /\ (i = 1 \/ tokens[i - 1].type # "Dot")

(* A call of a tm_ function starts at token i *)
TmCallAt(tokens, i) ==
    /\ i + 1 <= Len(tokens)
    /\ isTmFuncall(tokens[i])
    /\ tokens[i + 1].type = "OParen"

HasTerramate(tokens) ==
    \E i \in 1..Len(tokens) : TerramateRefAt(tokens, i) \/ TmCallAt(tokens, i)

Evaluated == pres.done

EvalSucceeded == pres.done /\ pres.err = <<>>

FailedWith(kind) == pres.done /\ \E i \in 1..Len(pres.err) : pres.err[i] = kind

----------------------------------------------------------------------------
(* C16 *)
(* PartialEval is the identity on an expression of Terraform only: when    *)
(* the tokens hold no variable rooted at global or terramate and no call   *)
(* of a tm_ function, PartialEval succeeds and the bytes of the tokens it  *)
(* returns are the bytes of the tokens it was given.                       *)
C16_TerraformOnlyIsIdentity ==
    (Evaluated /\ ~HasTerramate(ExprTokens(pexpr)))
        => /\ EvalSucceeded
           /\ Text(pres.tokens) = Text(InputTokens(pexpr))

----------------------------------------------------------------------------
(* C17 *)
(* When PartialEval succeeds, the tokens it returns hold no variable       *)
(* rooted at global or terramate and no call of a tm_ function, wherever   *)
(* the input held one.                                                     *)
C17_NoTerramateLeft ==
    EvalSucceeded => ~HasTerramate(pres.tokens)

----------------------------------------------------------------------------
(* C18 *)

(* A for-expression opens at token j *)
ForOpenAt(tokens, j) ==
    /\ j + 1 <= Len(tokens)
    /\ tokens[j].type \in {"OBrack", "OBrace"}
    /\ isForExpr(tokens[j + 1])

(* The brackets of the kind of token j that are open after token m *)
OpenBetween(tokens, j, m) ==
    Cardinality({n \in j..m : tokens[n].type = tokens[j].type})
        - Cardinality({n \in j..m : tokens[n].type = closeOf(tokens[j].type)})

(* The token that closes the for-expression opened at token j *)
ForCloseOf(tokens, j) ==
    CHOOSE k \in j..Len(tokens) :
        /\ OpenBetween(tokens, j, k) = 0
        /\ \A m \in j..k - 1 : OpenBetween(tokens, j, m) > 0

ForExprs(tokens) ==
    {<<j, ForCloseOf(tokens, j)>> : j \in {n \in 1..Len(tokens) : ForOpenAt(tokens, n)}}

TerramateRefsIn(tokens, ext) ==
    {i \in ext[1]..ext[2] : TerramateRefAt(tokens, i)}

(* Token j is one the engine walks: it is neither an argument of a call of *)
(* a tm_ function, which is evaluated as a whole, nor inside a heredoc.    *)
InTmCall(tokens, j) ==
    \E i \in 1..j - 1 :
        /\ TmCallAt(tokens, i)
        /\ \A m \in i + 1..j :
              Cardinality({n \in i + 1..m : tokens[n].type = "OParen"})
                  > Cardinality({n \in i + 1..m : tokens[n].type = "CParen"})

InHeredoc(tokens, j) ==
    \E i \in 1..j - 1 :
        /\ tokens[i].type = "OHeredoc"
        /\ \A m \in i..j : tokens[m].type # "CHeredoc"

Walked(tokens, j) == ~InTmCall(tokens, j) /\ ~InHeredoc(tokens, j)

(* The tokens of the extent are a run of the tokens returned *)
EmittedVerbatim(tokens, ext) ==
    \E o \in 0..Len(pres.tokens) - (ext[2] - ext[1] + 1) :
        \A i \in ext[1]..ext[2] : pres.tokens[o + i - ext[1] + 1] = tokens[i]

(* A variable rooted at global or terramate anywhere inside a              *)
(* for-expression the engine walks makes PartialEval fail with             *)
(* ForExprDisallowEval, and a for-expression without such a variable is    *)
(* returned verbatim.                                                      *)
C18_ForExprDisallowsEval ==
    Evaluated =>
        \A ext \in ForExprs(ExprTokens(pexpr)) :
            Walked(ExprTokens(pexpr), ext[1]) =>
                IF TerramateRefsIn(ExprTokens(pexpr), ext) # {}
                THEN FailedWith("ForExprDisallowEval")
                ELSE EvalSucceeded => EmittedVerbatim(ExprTokens(pexpr), ext)

----------------------------------------------------------------------------
(* C19 *)

(* The atoms whose value is a list or an object *)
CollectionAtoms == {"global.l", "global.o", "tm_l()"}

(* The quoted strings with more than one piece *)
ManyPieces == {"\"a${_}\"", "\"${_}${global.n}\""}

(* The contexts whose hole the engine does not walk by design: the         *)
(* arguments of a tm_ call, a heredoc and a for-expression                 *)
NotWalked == ForContexts \cup {"tm_s(_)", "<<EOT ${_} EOT"}

(* The expression holds a quoted string of several pieces the engine       *)
(* walks, one piece being an interpolation of a list or of an object,      *)
(* bare or between parentheses.                                            *)
CollectionInterpolated ==
    /\ pexpr.atom \in CollectionAtoms
    /\ \E p \in 1..Len(pexpr.contexts) :
          /\ pexpr.contexts[p] \in ManyPieces
          /\ \A q \in 1..p - 1 : pexpr.contexts[q] = "(_)"
          /\ \A q \in p + 1..Len(pexpr.contexts) : pexpr.contexts[q] \notin NotWalked

(* In a quoted string of several pieces an interpolation that evaluates to *)
(* a list or to an object makes PartialEval fail with InterpolationEval.   *)
C19_CollectionInStringFails ==
    (Evaluated /\ CollectionInterpolated) => FailedWith("InterpolationEval")

----------------------------------------------------------------------------
(* C20 *)

(* The value of an atom that is a variable of Terramate or a tm_ call *)
AtomValue(a) ==
    IF isTmFuncall(AtomTokens(a)[1]) THEN EvalCall(AtomTokens(a))
    ELSE EvalTraversal(AtomTokens(a))

EvaluatedAtoms ==
    {a \in AtomNames : HasTerramate(AtomTokens(a)) /\ AtomValue(a).t # "error"}

(* The contexts made of tokens the engine copies around the hole *)
PlainContexts ==
    {"(_)", "( /**/ _ /**/ )", "[_, 2]", "{a = _}", "f(var.a, _)", "_ + 1",
     "true ? _ : 0", "-_", "_[0]"}

(* The expression holds the quoted string "${expr}", expr being a variable *)
(* of Terramate or a tm_ call that has a value.                            *)
SingleInterpolation ==
    /\ pexpr.atom \in EvaluatedAtoms
    /\ Len(pexpr.contexts) >= 1
    /\ pexpr.contexts[1] = "\"${_}\""
    /\ \A q \in 2..Len(pexpr.contexts) : pexpr.contexts[q] \in PlainContexts

(* The tokens are a run of the tokens returned, with no quote and no ${    *)
(* before them.                                                            *)
EmittedBare(tokens) ==
    \E o \in 0..Len(pres.tokens) - Len(tokens) :
        /\ \A i \in 1..Len(tokens) : pres.tokens[o + i] = tokens[i]
        /\ o > 0 => pres.tokens[o].type \notin {"OQuote", "TemplateInterp"}

(* A quoted string made of exactly one interpolation of an expression that *)
(* is fully evaluated is replaced by the tokens of the value: no quotes    *)
(* around a number, a bool, a list or an object, and the quoted string     *)
(* itself for a string.                                                    *)
C20_SingleInterpolationIsValue ==
    (Evaluated /\ SingleInterpolation)
        => /\ EvalSucceeded
           /\ EmittedBare(TokensForValue(AtomValue(pexpr.atom)))
           /\ AtomValue(pexpr.atom).t = "string"
                 <=> \E i \in 1..Len(pres.tokens) : pres.tokens[i].type = "OQuote"

\* "${global.o}" in a list: the object comes back without quotes.
C20_Witness ==
    /\ Evaluated
    /\ SingleInterpolation
    /\ pexpr = [atom |-> "global.o", contexts |-> <<"\"${_}\"", "[_, 2]">>]
    /\ pres.err = <<>>
    /\ pres.tokens[1].type = "OBrack"
    /\ pres.tokens[2].type = "OBrace"

----------------------------------------------------------------------------
(* C21 *)

(* The context around the whole expression, and the expression in its hole *)
OutermostContext ==
    IF pexpr.contexts = <<>> THEN "" ELSE pexpr.contexts[Len(pexpr.contexts)]

InnerExpr == [pexpr EXCEPT !.contexts = SubSeq(@, 1, Len(@) - 1)]

(* The expression is a call of a tm_ function *)
TmCallExpr ==
    \/ pexpr.contexts = <<>> /\ isTmFuncall(AtomTokens(pexpr.atom)[1])
    \/ OutermostContext = "tm_s(_)"

(* The expression is a call of a function that is not Terramate's *)
OtherCallExpr == OutermostContext = "f(var.a, _)"

(* The tokens returned, without the EOF that ends them *)
Returned(tokens) == SubSeq(tokens, 1, Len(tokens) - 1)

(* A call of a tm_ function is replaced by the tokens of the value of the  *)
(* whole call, and fails when the call has no value.  A call of any other  *)
(* function keeps its name, its parentheses, its commas and the arguments  *)
(* that are not Terramate's, each argument being replaced by what partial  *)
(* evaluation returns for the argument alone; it fails when an argument    *)
(* fails.                                                                  *)
C21_CallsSplitByPrefix ==
    Evaluated =>
        /\ TmCallExpr =>
              IF EvalCall(ExprTokens(pexpr)).t = "error"
              THEN FailedWith("PartialEval") /\ ~FailedWith("panic")
              ELSE /\ EvalSucceeded
                   /\ Returned(pres.tokens) = TokensForValue(EvalCall(ExprTokens(pexpr)))
        /\ OtherCallExpr =>
              IF PartialEval(InputTokens(InnerExpr)).err # <<>>
              THEN pres.err = PartialEval(InputTokens(InnerExpr)).err
              ELSE /\ EvalSucceeded
                   /\ Returned(pres.tokens) =
                         TokensBefore("f(var.a, _)") \o
                         Returned(PartialEval(InputTokens(InnerExpr)).tokens) \o
                         TokensAfter("f(var.a, _)")

\* f(var.a, global.l) becomes f(var.a, [1]), tm_try(global.u, null) null.
C21_Witness ==
    /\ EvalSucceeded
    /\ \/ /\ pexpr = [atom |-> "global.l", contexts |-> <<"f(var.a, _)">>]
          /\ Returned(pres.tokens) = TokensBefore("f(var.a, _)") \o
                           <<tokenOBrack, tokenNumber("1"), tokenCBrack>> \o
                           TokensAfter("f(var.a, _)")
       \/ /\ pexpr = [atom |-> "tm_try(global.u, null)", contexts |-> <<>>]
          /\ Returned(pres.tokens) = <<tokenIdent("null")>>

----------------------------------------------------------------------------
(* Parsing a directory *)

(* The last call was Parse and it returned *)
ParseReturned == pcall.op = "Parse" /\ ~pcall.endless

(* The blocks of the file are among the blocks of the parser, and the     *)
(* attributes of its globals block among those of the merged block.        *)
BlocksOf(f) ==
    \A i \in 1..Len(FileBlocks(pfs, f)) :
        IF FileBlocks(pfs, f)[i].type = "globals"
        THEN /\ "globals" \in DOMAIN parser.MergedBlocks
             /\ FileBlocks(pfs, f)[i].attrs \subseteq parser.MergedBlocks["globals"].attrs
        ELSE \E j \in 1..Len(parser.Blocks) : parser.Blocks[j] = FileBlocks(pfs, f)[i]

(* The call reported the syntax error of the file *)
SyntaxErrorOf(f) ==
    \E i \in 1..Len(pcall.errs) : pcall.errs[i] = Err("HCLSyntax", f)

(* C22: a Parse that returns gives either a Config of the directory with   *)
(* no error, every added file having been parsed and merged, or the empty  *)
(* Config with an error; on the first Parse the error holds the syntax     *)
(* error of every added file that has one.                                 *)
C22_ParseAllOrNothing ==
    ParseReturned =>
        \/ /\ pcall.errs = <<>>
           /\ pcall.config.absdir = parser.dir
           /\ pcall.config.Stack = (\E f \in parser.files : pfs[f].kind = "stack")
           /\ \A f \in parser.files :
                  /\ f \in DOMAIN parser.parsedFiles
                  /\ parser.parsedFiles[f] = "internal"
                  /\ BlocksOf(f)
        \/ /\ pcall.errs # <<>>
           /\ pcall.config = EmptyConfig
           /\ ~pcall.before.parsed =>
                  \A f \in parser.files : pfs[f].kind = "bad" => SyntaxErrorOf(f)

(* Parse of a directory with two files that both have a syntax error *)
C22_Witness ==
    /\ ParseReturned
    /\ ~pcall.before.parsed
    /\ Cardinality({f \in parser.files : pfs[f].kind = "bad"}) = 2
    /\ Len(pcall.errs) = 2

----------------------------------------------------------------------------
(* Imports *)

(* The file an import source of the model names *)
Imported(src) == Root \o src

(* f imports g *)
ImportsFile(f, g) ==
    \E i \in 1..Len(pfs[f].imports) : Imported(pfs[f].imports[i]) = g

(* The files reached from the files of S by imports, S included *)
RECURSIVE ImportClosure(_)
ImportClosure(S) ==
    LET more == S \cup {g \in ConfigFiles : \E f \in S : ImportsFile(f, g)}
    IN  IF more = S THEN S ELSE ImportClosure(more)

(* The file is on an import cycle *)
OnImportCycle(f) ==
    f \in ImportClosure({g \in ConfigFiles : ImportsFile(f, g)})

(* The last call was the first call on its parser *)
FirstCall == pcall.op # "none" /\ ~pcall.before.parsed

HasError(kind) == \E i \in 1..Len(pcall.errs) : pcall.errs[i].kind = kind

(* C23: a call on a parser never recurses without bound, and when the     *)
(* files of the parser reach an import cycle through files without syntax *)
(* error the first call returns an Import error.                          *)
C23_ImportCyclesRejected ==
    pcall.op # "none" =>
        /\ ~pcall.endless
        /\ ( /\ FirstCall
             /\ \E f \in ImportClosure(parser.files) : OnImportCycle(f)
             /\ \A f \in ImportClosure(parser.files) : pfs[f].kind # "bad" )
           => HasError("Import")

(* The part of C23 that holds: a call that returns on a cycle has rejected it *)
CyclesRejectedOnReturn ==
    ( /\ FirstCall /\ ~pcall.endless
      /\ \E f \in ImportClosure(parser.files) : OnImportCycle(f)
      /\ \A f \in ImportClosure(parser.files) : pfs[f].kind # "bad" )
    => HasError("Import")

(* d is an ancestor directory of dir *)
IsAncestorDir(d, dir) ==
    d # dir /\ (d = <<"/">> \/ HasPrefix(dir, d \o <<"/">>))

HasMessage(msg) == \E i \in 1..Len(pcall.errs) : pcall.errs[i].msg = msg

(* The imports of the files of the parser are all handled by the parser,  *)
(* and no imported file imports.                                          *)
OnlyOwnImports ==
    /\ FirstCall /\ ~pcall.endless
    /\ \A f \in parser.files : pfs[f].kind # "bad"
    /\ \A f \in ConfigFiles \ parser.files : pfs[f].imports = <<>>

(* C24: handleImport rejects an import on directory grounds exactly when  *)
(* the directory of the resolved source is the directory of the parser or *)
(* an ancestor of it.                                                     *)
C24_ImportDirectoryRule ==
    OnlyOwnImports =>
        ( (HasMessage("same directory") \/ HasMessage("same tree"))
          <=> \E f \in parser.files : \E i \in 1..Len(pfs[f].imports) :
                  \/ Dir(Imported(pfs[f].imports[i])) = parser.dir
                  \/ IsAncestorDir(Dir(Imported(pfs[f].imports[i])), parser.dir) )

(* C25: on the first call that returns, no block of any file is among the *)
(* blocks of the parser more than once.                                   *)
C25_NoFileMergedTwice ==
    (FirstCall /\ ~pcall.endless) =>
        \A i, j \in 1..Len(parser.Blocks) :
            i # j => parser.Blocks[i] # parser.Blocks[j]

(* C28: a call of Parse or MinimalParse on a parser that has been parsed  *)
(* returns the error "files already parsed" (Parse with the empty Config) *)
(* and leaves MergedAttributes, MergedBlocks and Blocks as they were.     *)
C28_ParsedOnlyOnce ==
    (pcall.op # "none" /\ pcall.before.parsed) =>
        /\ pcall.errs = <<Err("", "files already parsed")>>
        /\ pcall.config = EmptyConfig
        /\ parser.MergedAttributes = pcall.before.MergedAttributes
        /\ parser.MergedBlocks = pcall.before.MergedBlocks
        /\ parser.Blocks = pcall.before.Blocks

(* A second call on a parser that holds attributes, merged blocks and blocks *)
C28_Witness ==
    /\ pcall.op # "none" /\ pcall.before.parsed
    /\ parser.parsed
    /\ parser.MergedAttributes # EmptyMap
    /\ parser.MergedBlocks # EmptyMap
    /\ parser.Blocks # <<>>

----------------------------------------------------------------------------
(* The run order *)

(* The stacks reached from the stacks of S by After, S included *)
RECURSIVE AfterClosure(_)
AfterClosure(S) ==
    LET more == S \cup {a \in OrderStacks :
                          \E s \in S : \E i \in 1..Len(ostacks[s]) : ostacks[s][i] = a}
    IN  IF more = S THEN S ELSE AfterClosure(more)

(* The stack is on a cycle of After *)
OnAfterCycle(s) ==
    s \in AfterClosure({ostacks[s][i] : i \in 1..Len(ostacks[s])})

(* RunOrder has been called *)
OrderCalled == ores.given # {}

(* Position of the stack in the order, 0 when it is not there *)
Position(order, s) ==
    IF \E i \in 1..Len(order) : order[i] = s
    THEN CHOOSE i \in 1..Len(order) : order[i] = s
    ELSE 0

(* Every stack at most once, and every After of a stack before the stack *)
ValidOrder(order) ==
    /\ \A i, j \in 1..Len(order) : i # j => order[i] # order[j]
    /\ \A i \in 1..Len(order) : \A k \in 1..Len(ostacks[order[i]]) :
           /\ Position(order, ostacks[order[i]][k]) > 0
           /\ Position(order, ostacks[order[i]][k]) < i

RECURSIVE OrderLess(_, _)
OrderLess(o1, o2) ==
    IF o1 = <<>> THEN FALSE
    ELSE IF Head(o1) # Head(o2) THEN StrLess(Head(o1), Head(o2))
    ELSE OrderLess(Tail(o1), Tail(o2))

(* C27: the order RunOrder returns is the lexicographically smallest of   *)
(* the valid orders of the stacks it holds.                               *)
C27_SmallestValidOrder ==
    (OrderCalled /\ ores.err = "") =>
        \A o \in Perms({ores.order[i] : i \in 1..Len(ores.order)}) :
            ValidOrder(o) => ~OrderLess(o, ores.order)

----------------------------------------------------------------------------
(* Do and CheckStack *)

(* CheckStack was called on the stack right after a Do reported it without error *)
CheckedAfterDo(s) ==
    /\ chk.stack = s
    /\ ran
    /\ report[s].status = "done"
    /\ report[s].err = "none"

(* C29: CheckStack right after a Do that reported the stack without error *)
(* returns no error and no outdated file.                                 *)
C29_CheckAgreesWithDo ==
    \A s \in StackIds :
        CheckedAfterDo(s) => chk.err = "none" /\ chk.outdated = <<>>

----------------------------------------------------------------------------
(* The input of a partial evaluation *)

(* C30: when PartialEval returns, with tokens or with an error, the tokens *)
(* of its input have the type and the bytes they had before the call.      *)
C30_InputNotModified ==
    pres.done => pres.input = InputTokens(pexpr)

====
